---- MODULE Spec2Model ----
(***************************************************************************)
(* Persistent singly-linked list kept in one file, under two addressing    *)
(* schemes:                                                                *)
(*   offset scheme  src/unnamed/part_002                                   *)
(*   paged scheme   src/chapter02/paged_linked_list/main.go                *)
(* The file is a sequence of bytes; every header, page header and record   *)
(* is encoded to and decoded from big-endian bytes as the code does.  Each *)
(* Seek / ReadFull / Write call of the code is one step of an I/O context, *)
(* which records the calls issued and can make one chosen call fail.       *)
(***************************************************************************)
EXTENDS Integers, Sequences, FiniteSets, TLC

\* ------------------------------------------------------------------ bounds
\* values stored in the list are 0..MaxVal
MaxVal == 1
\* at most MaxRecs records are ever allocated in one file
MaxRecs == 3
\* slots of one page; the source's page of 4096 bytes holds 341 slots, the
\* model's page is sized to hold MaxSlots so that a full page is reached
MaxSlots == 2
\* a handle is not used for list operations again once MaxFailures of its
\* operations returned an error (every caller in the source panics at the
\* first error)
MaxFailures == 1

Values == 0..MaxVal

\* sequencing: F applied to the value of e, which is computed once
Then(e, F(_)) == CHOOSE r \in {F(x) : x \in {e}} : TRUE

\* ------------------------------------------------------- encoding/binary

RECURSIVE PutUint(_, _)
\* big-endian bytes of the unsigned v on n bytes (v mod 2^(8n))
PutUint(v, n) ==
    IF n = 0 THEN <<>> ELSE Append(PutUint(v \div 256, n - 1), v % 256)

\* big-endian bytes of uintN(v) for a signed v: two's complement on n bytes
PutInt(v, n) ==
    IF v >= 0 THEN PutUint(v, n)
    ELSE LET m == PutUint(-v - 1, n) IN [i \in 1..n |-> 255 - m[i]]

RECURSIVE Uint(_)
\* the unsigned value of big-endian bytes
Uint(b) ==
    IF Len(b) = 0 THEN 0
    ELSE Uint(SubSeq(b, 1, Len(b) - 1)) * 256 + b[Len(b)]

\* the two's-complement value of the bytes fits 32 bits: the bytes above
\* the low four only extend the sign
Narrow(b) ==
    LET k == Len(b) - 4
    IN  \/ (\A i \in 1..k : b[i] = 0) /\ b[k + 1] < 128
        \/ (\A i \in 1..k : b[i] = 255) /\ b[k + 1] >= 128

\* intN(Uint(b)), as the code's int64(Endian.Uint64(b)): the bytes read as
\* a two's-complement signed value; a value that does not fit 32 bits is
\* held as its bytes
SInt(b) ==
    IF Len(b) > 4 /\ ~Narrow(b) THEN b
    ELSE IF b[1] >= 128 THEN -Uint([i \in 1..Len(b) |-> 255 - b[i]]) - 1
    ELSE Uint(b)

\* A uint32 or (u)int64 is held as the two's-complement value of its bits
\* (0xFFFFFFFF is -1), a uint16 as its unsigned value.
AppendUint16(buf, v) == buf \o PutUint(v, 2)
AppendUint32(buf, v) == buf \o PutInt(v, 4)
AppendUint64(buf, v) == buf \o PutInt(v, 8)
Uint16(b) == Uint(b)
Uint32(b) == SInt(b)
Uint64(b) == SInt(b)

Zeros(n) == [i \in 1..n |-> 0]

\* ------------------------------------------------------------ the os.File
\* An I/O context: the file's bytes, the file position, the calls issued so
\* far (log), the index of the call that fails (fail, 0 = none), the error
\* flag of the last call and the bytes returned by the last read.
NewCtx(bytes, failAt) ==
    [file |-> bytes, pos |-> 0, fail |-> failAt, err |-> FALSE,
     log |-> <<>>, buf |-> <<>>]

Fails(c) == Len(c.log) + 1 = c.fail

\* f.Seek(off, io.SeekStart)
Seek(c, off) ==
    IF Fails(c)
    THEN [c EXCEPT !.err = TRUE,
                   !.log = Append(@, [call |-> "seek", off |-> off, len |-> 0])]
    ELSE [c EXCEPT !.pos = off,
                   !.log = Append(@, [call |-> "seek", off |-> off, len |-> 0])]

\* f.Seek(0, io.SeekEnd): the new position is the file's length
SeekEnd(c) ==
    IF Fails(c)
    THEN [c EXCEPT !.err = TRUE,
                   !.log = Append(@, [call |-> "seek", off |-> Len(c.file), len |-> 0])]
    ELSE [c EXCEPT !.pos = Len(c.file),
                   !.log = Append(@, [call |-> "seek", off |-> Len(c.file), len |-> 0])]

\* the file after b is written at byte offset off (a gap reads as zeros)
WriteAt(bytes, off, b) ==
    LET n == IF off + Len(b) > Len(bytes) THEN off + Len(b) ELSE Len(bytes)
    IN  [i \in 1..n |->
            IF i > off /\ i <= off + Len(b) THEN b[i - off]
            ELSE IF i <= Len(bytes) THEN bytes[i] ELSE 0]

\* f.Write(b) at the current position; a failing write changes nothing
Write(c, b) ==
    IF Fails(c)
    THEN [c EXCEPT !.err = TRUE,
                   !.log = Append(@, [call |-> "write", off |-> c.pos, len |-> Len(b)])]
    ELSE [c EXCEPT !.file = WriteAt(c.file, c.pos, b),
                   !.pos = c.pos + Len(b),
                   !.log = Append(@, [call |-> "write", off |-> c.pos, len |-> Len(b)])]

\* io.ReadFull(f, buf) with len(buf) = n: fails on a short file
ReadFull(c, n) ==
    IF Fails(c) \/ c.pos + n > Len(c.file)
    THEN [c EXCEPT !.err = TRUE, !.buf = <<>>,
                   !.log = Append(@, [call |-> "read", off |-> c.pos, len |-> n])]
    ELSE [c EXCEPT !.buf = SubSeq(c.file, c.pos + 1, c.pos + n),
                   !.pos = c.pos + n,
                   !.log = Append(@, [call |-> "read", off |-> c.pos, len |-> n])]

\* ===================================================== the offset scheme
Magic == <<76, 76, 83, 84>>
DefaultPageSize == 4096
NullOffset == -1
nodePadBytes == 3
OffHeaderSize == 4 + 2 + 2 + 8 + 8 + 8 + 8
nodeOnDiskSize == 4 + 8 + 1 + nodePadBytes

\* mutant of OffHeaderBytes: the tail offset is encoded before the head offset
OffHeaderBytes_TailBeforeHead(hdr) ==
    AppendUint64(AppendUint64(AppendUint64(AppendUint64(
        AppendUint16(AppendUint16(hdr.Magic, hdr.Version), hdr.PageSize),
        hdr.TailOffset), hdr.HeadOffset), hdr.Size), hdr.FreeList)

\* the 40 bytes writeHeader builds
OffHeaderBytes(hdr) ==
    AppendUint64(AppendUint64(AppendUint64(AppendUint64(
        AppendUint16(AppendUint16(hdr.Magic, hdr.Version), hdr.PageSize),
        hdr.HeadOffset), hdr.TailOffset), hdr.Size), hdr.FreeList)

writeHeader(c, hdr) ==
    Then(Seek(c, 0), LAMBDA c1 :
    IF c1.err THEN c1 ELSE Write(c1, OffHeaderBytes(hdr)))

\* mutant of OffHeaderOf: FreeList is decoded from the bytes of Size
OffHeaderOf_WrongSlice(buf) ==
    [Magic      |-> SubSeq(buf, 1, 4),
     Version    |-> Uint16(SubSeq(buf, 5, 6)),
     PageSize   |-> Uint16(SubSeq(buf, 7, 8)),
     HeadOffset |-> Uint64(SubSeq(buf, 9, 16)),
     TailOffset |-> Uint64(SubSeq(buf, 17, 24)),
     Size       |-> Uint64(SubSeq(buf, 25, 32)),
     FreeList   |-> Uint64(SubSeq(buf, 25, 32))]

\* the header readHeader decodes from the 40 bytes
OffHeaderOf(buf) ==
    [Magic      |-> SubSeq(buf, 1, 4),
     Version    |-> Uint16(SubSeq(buf, 5, 6)),
     PageSize   |-> Uint16(SubSeq(buf, 7, 8)),
     HeadOffset |-> Uint64(SubSeq(buf, 9, 16)),
     TailOffset |-> Uint64(SubSeq(buf, 17, 24)),
     Size       |-> Uint64(SubSeq(buf, 25, 32)),
     FreeList   |-> Uint64(SubSeq(buf, 33, 40))]

\* the result of Open and readHeader: err is "" | "io" | "magic"
Opened(c, h, err) == [c |-> c, h |-> h, err |-> err]

readHeader(c) ==
    Then(Seek(c, 0), LAMBDA c1 :
    IF c1.err THEN Opened(c1, <<>>, "io")
    ELSE Then(ReadFull(c1, OffHeaderSize), LAMBDA c2 :
    IF c2.err THEN Opened(c2, <<>>, "io")
    ELSE IF SubSeq(c2.buf, 1, 4) # Magic THEN Opened(c2, <<>>, "magic")
    ELSE Opened(c2, OffHeaderOf(c2.buf), "")))

NodeBytes(n) ==
    AppendUint64(AppendUint32(<<>>, n.Value), n.Next) \o <<n.Tomb>>
        \o Zeros(nodePadBytes)

writeNodeAt(c, off, n) ==
    Then(Seek(c, off), LAMBDA c1 :
    IF c1.err THEN c1 ELSE Write(c1, NodeBytes(n)))

NodeOf(buf) ==
    [Value |-> Uint32(SubSeq(buf, 1, 4)),
     Next  |-> Uint64(SubSeq(buf, 5, 12)),
     Tomb  |-> buf[13]]

\* readNodeAt: the context after the call; the node is NodeOf(c.buf)
readNodeAt(c, off) ==
    Then(Seek(c, off), LAMBDA c1 :
    IF c1.err THEN c1 ELSE ReadFull(c1, nodeOnDiskSize))

\* mutant of Open: O_TRUNC is not passed, and only an empty file gets a fresh header
Open_NoTruncFlag(bytes, truncate, failAt) ==
    LET c0 == NewCtx(bytes, failAt)
        fresh == [Magic |-> Magic, Version |-> 1, PageSize |-> DefaultPageSize,
                  HeadOffset |-> NullOffset, TailOffset |-> NullOffset,
                  Size |-> 0, FreeList |-> NullOffset]
    IN  Then(IF Len(c0.file) = 0 THEN writeHeader(c0, fresh) ELSE c0,
        LAMBDA c1 :
        IF c1.err THEN Opened(c1, <<>>, "io") ELSE readHeader(c1))

\* Open(path, truncate) on a file holding bytes
Open(bytes, truncate, failAt) ==
    LET c0 == NewCtx(IF truncate THEN <<>> ELSE bytes, failAt)
        fresh == [Magic |-> Magic, Version |-> 1, PageSize |-> DefaultPageSize,
                  HeadOffset |-> NullOffset, TailOffset |-> NullOffset,
                  Size |-> 0, FreeList |-> NullOffset]
    IN  Then(IF Len(c0.file) = 0 \/ truncate THEN writeHeader(c0, fresh) ELSE c0,
        LAMBDA c1 :
        IF c1.err THEN Opened(c1, <<>>, "io") ELSE readHeader(c1))

\* the result of a list operation: context, header, found flag, the address
\* the operation allocated or tombstoned (null when none), and whether its
\* loop ran past every record of the file
Ret(c, hdr, found, addr) ==
    [c |-> c, h |-> hdr, found |-> found, addr |-> addr, loop |-> FALSE]

\* mutant of appendTail: on a non-empty list the header's tail keeps addressing the old tail
appendTail_TailNotAdvanced(c, hdr, value) ==
    Then(SeekEnd(c), LAMBDA c1 :
    IF c1.err THEN Ret(c1, hdr, FALSE, NullOffset)
    ELSE LET newOff == c1.pos
             newNode == [Value |-> value, Next |-> NullOffset, Tomb |-> 0]
    IN  Then(writeNodeAt(c1, newOff, newNode), LAMBDA c2 :
    IF c2.err THEN Ret(c2, hdr, FALSE, newOff)
    ELSE IF hdr.HeadOffset = NullOffset
    THEN LET h1 == [hdr EXCEPT !.HeadOffset = newOff, !.TailOffset = newOff,
                               !.Size = @ + 1]
         IN  Ret(writeHeader(c2, h1), h1, FALSE, newOff)
    ELSE Then(readNodeAt(c2, hdr.TailOffset), LAMBDA c3 :
    IF c3.err THEN Ret(c3, hdr, FALSE, newOff)
    ELSE LET tailNode == [NodeOf(c3.buf) EXCEPT !.Next = newOff]
    IN  Then(writeNodeAt(c3, hdr.TailOffset, tailNode), LAMBDA c4 :
    IF c4.err THEN Ret(c4, hdr, FALSE, newOff)
    ELSE LET h2 == [hdr EXCEPT !.Size = @ + 1]
         IN  Ret(writeHeader(c4, h2), h2, FALSE, newOff)))))

\* mutant of appendTail: the new record goes to the head of the free list when there is one
appendTail_TakesFreeList(c, hdr, value) ==
    Then(SeekEnd(c), LAMBDA c1 :
    IF c1.err THEN Ret(c1, hdr, FALSE, NullOffset)
    ELSE LET newOff == IF hdr.FreeList # NullOffset THEN hdr.FreeList ELSE c1.pos
             newNode == [Value |-> value, Next |-> NullOffset, Tomb |-> 0]
    IN  Then(writeNodeAt(c1, newOff, newNode), LAMBDA c2 :
    IF c2.err THEN Ret(c2, hdr, FALSE, newOff)
    ELSE IF hdr.HeadOffset = NullOffset
    THEN LET h1 == [hdr EXCEPT !.HeadOffset = newOff, !.TailOffset = newOff,
                               !.Size = @ + 1]
         IN  Ret(writeHeader(c2, h1), h1, FALSE, newOff)
    ELSE Then(readNodeAt(c2, hdr.TailOffset), LAMBDA c3 :
    IF c3.err THEN Ret(c3, hdr, FALSE, newOff)
    ELSE LET tailNode == [NodeOf(c3.buf) EXCEPT !.Next = newOff]
    IN  Then(writeNodeAt(c3, hdr.TailOffset, tailNode), LAMBDA c4 :
    IF c4.err THEN Ret(c4, hdr, FALSE, newOff)
    ELSE LET h2 == [hdr EXCEPT !.TailOffset = newOff, !.Size = @ + 1]
         IN  Ret(writeHeader(c4, h2), h2, FALSE, newOff)))))

\* mutant of appendTail: the old tail is written from a new node that holds only the link
appendTail_TailRebuilt(c, hdr, value) ==
    Then(SeekEnd(c), LAMBDA c1 :
    IF c1.err THEN Ret(c1, hdr, FALSE, NullOffset)
    ELSE LET newOff == c1.pos
             newNode == [Value |-> value, Next |-> NullOffset, Tomb |-> 0]
    IN  Then(writeNodeAt(c1, newOff, newNode), LAMBDA c2 :
    IF c2.err THEN Ret(c2, hdr, FALSE, newOff)
    ELSE IF hdr.HeadOffset = NullOffset
    THEN LET h1 == [hdr EXCEPT !.HeadOffset = newOff, !.TailOffset = newOff,
                               !.Size = @ + 1]
         IN  Ret(writeHeader(c2, h1), h1, FALSE, newOff)
    ELSE Then(readNodeAt(c2, hdr.TailOffset), LAMBDA c3 :
    IF c3.err THEN Ret(c3, hdr, FALSE, newOff)
    ELSE LET tailNode == [Value |-> 0, Next |-> newOff, Tomb |-> 0]
    IN  Then(writeNodeAt(c3, hdr.TailOffset, tailNode), LAMBDA c4 :
    IF c4.err THEN Ret(c4, hdr, FALSE, newOff)
    ELSE LET h2 == [hdr EXCEPT !.TailOffset = newOff, !.Size = @ + 1]
         IN  Ret(writeHeader(c4, h2), h2, FALSE, newOff)))))

appendTail(c, hdr, value) ==
    Then(SeekEnd(c), LAMBDA c1 :
    IF c1.err THEN Ret(c1, hdr, FALSE, NullOffset)
    ELSE LET newOff == c1.pos
             newNode == [Value |-> value, Next |-> NullOffset, Tomb |-> 0]
    IN  Then(writeNodeAt(c1, newOff, newNode), LAMBDA c2 :
    IF c2.err THEN Ret(c2, hdr, FALSE, newOff)
    ELSE IF hdr.HeadOffset = NullOffset
    THEN LET h1 == [hdr EXCEPT !.HeadOffset = newOff, !.TailOffset = newOff,
                               !.Size = @ + 1]
         IN  Ret(writeHeader(c2, h1), h1, FALSE, newOff)
    ELSE Then(readNodeAt(c2, hdr.TailOffset), LAMBDA c3 :
    IF c3.err THEN Ret(c3, hdr, FALSE, newOff)
    ELSE LET tailNode == [NodeOf(c3.buf) EXCEPT !.Next = newOff]
    IN  Then(writeNodeAt(c3, hdr.TailOffset, tailNode), LAMBDA c4 :
    IF c4.err THEN Ret(c4, hdr, FALSE, newOff)
    ELSE LET h2 == [hdr EXCEPT !.TailOffset = newOff, !.Size = @ + 1]
         IN  Ret(writeHeader(c4, h2), h2, FALSE, newOff)))))

\* mutant of prependHead: the new record's next is null instead of the old head
prependHead_NextNull(c, hdr, value) ==
    Then(SeekEnd(c), LAMBDA c1 :
    IF c1.err THEN Ret(c1, hdr, FALSE, NullOffset)
    ELSE LET newOff == c1.pos
             newNode == [Value |-> value, Next |-> NullOffset, Tomb |-> 0]
    IN  Then(writeNodeAt(c1, newOff, newNode), LAMBDA c2 :
    IF c2.err THEN Ret(c2, hdr, FALSE, newOff)
    ELSE LET h1 == [hdr EXCEPT !.TailOffset =
                                  IF hdr.HeadOffset = NullOffset THEN newOff ELSE @,
                               !.HeadOffset = newOff,
                               !.Size = @ + 1]
         IN  Ret(writeHeader(c2, h1), h1, FALSE, newOff)))

prependHead(c, hdr, value) ==
    Then(SeekEnd(c), LAMBDA c1 :
    IF c1.err THEN Ret(c1, hdr, FALSE, NullOffset)
    ELSE LET newOff == c1.pos
             newNode == [Value |-> value, Next |-> hdr.HeadOffset, Tomb |-> 0]
    IN  Then(writeNodeAt(c1, newOff, newNode), LAMBDA c2 :
    IF c2.err THEN Ret(c2, hdr, FALSE, newOff)
    ELSE LET h1 == [hdr EXCEPT !.TailOffset =
                                  IF hdr.HeadOffset = NullOffset THEN newOff ELSE @,
                               !.HeadOffset = newOff,
                               !.Size = @ + 1]
         IN  Ret(writeHeader(c2, h1), h1, FALSE, newOff)))

\* mutant of deleteCommit: Size is not decremented
deleteCommit_KeepsSize(c, h, off) ==
    LET h1 == h
    IN  Then(writeHeader(c, h1), LAMBDA c5 : Ret(c5, h1, ~c5.err, off))

\* mutant of deleteCommit: the header is written before size is decremented
deleteCommit_WritesOldSize(c, h, off) ==
    LET h1 == [h EXCEPT !.Size = IF @ > 0 THEN @ - 1 ELSE @]
    IN  Then(writeHeader(c, h), LAMBDA c5 : Ret(c5, h1, ~c5.err, off))

\* the end of the match branch: Size-- when positive, writeHeader, return
\* found unless the header write failed
deleteCommit(c, h, off) ==
    LET h1 == [h EXCEPT !.Size = IF @ > 0 THEN @ - 1 ELSE @]
    IN  Then(writeHeader(c, h1), LAMBDA c5 : Ret(c5, h1, ~c5.err, off))

\* mutant of deleteMatch: the record's next is taken after it was overwritten with the free list
deleteMatch_LostNext(c, hdr, off, prevOff, node) ==
    LET originalNext == hdr.FreeList
    IN  Then(writeNodeAt(c, off, [node EXCEPT !.Tomb = 1, !.Next = hdr.FreeList]),
        LAMBDA c1 :
    IF c1.err THEN Ret(c1, hdr, FALSE, off)
    ELSE LET h1 == [hdr EXCEPT !.FreeList = off]
    IN  IF prevOff = NullOffset
        THEN \* head is deleted
             deleteCommit(c1, [h1 EXCEPT !.HeadOffset = originalNext,
                                         !.TailOffset =
                                             IF originalNext = NullOffset
                                             THEN NullOffset ELSE @], off)
        ELSE Then(readNodeAt(c1, prevOff), LAMBDA c2 :
    IF c2.err THEN Ret(c2, h1, FALSE, off)
    ELSE LET prevNode == [NodeOf(c2.buf) EXCEPT !.Next = originalNext]
    IN  Then(writeNodeAt(c2, prevOff, prevNode), LAMBDA c3 :
    IF c3.err THEN Ret(c3, h1, FALSE, off)
    ELSE deleteCommit(c3, [h1 EXCEPT !.TailOffset =
                                        IF off = h1.TailOffset THEN prevOff ELSE @],
                      off))))

\* mutant of deleteMatch: the tombstoned record does not point to the previous free list
deleteMatch_FreeListNotLinked(c, hdr, off, prevOff, node) ==
    LET originalNext == node.Next
    IN  Then(writeNodeAt(c, off, [node EXCEPT !.Tomb = 1, !.Next = NullOffset]),
        LAMBDA c1 :
    IF c1.err THEN Ret(c1, hdr, FALSE, off)
    ELSE LET h1 == [hdr EXCEPT !.FreeList = off]
    IN  IF prevOff = NullOffset
        THEN \* head is deleted
             deleteCommit(c1, [h1 EXCEPT !.HeadOffset = originalNext,
                                         !.TailOffset =
                                             IF originalNext = NullOffset
                                             THEN NullOffset ELSE @], off)
        ELSE Then(readNodeAt(c1, prevOff), LAMBDA c2 :
    IF c2.err THEN Ret(c2, h1, FALSE, off)
    ELSE LET prevNode == [NodeOf(c2.buf) EXCEPT !.Next = originalNext]
    IN  Then(writeNodeAt(c2, prevOff, prevNode), LAMBDA c3 :
    IF c3.err THEN Ret(c3, h1, FALSE, off)
    ELSE deleteCommit(c3, [h1 EXCEPT !.TailOffset =
                                        IF off = h1.TailOffset THEN prevOff ELSE @],
                      off))))

\* mutant of deleteMatch: a deleted tail makes head the tail
deleteMatch_TailToHead(c, hdr, off, prevOff, node) ==
    LET originalNext == node.Next
    IN  Then(writeNodeAt(c, off, [node EXCEPT !.Tomb = 1, !.Next = hdr.FreeList]),
        LAMBDA c1 :
    IF c1.err THEN Ret(c1, hdr, FALSE, off)
    ELSE LET h1 == [hdr EXCEPT !.FreeList = off]
    IN  IF prevOff = NullOffset
        THEN \* head is deleted
             deleteCommit(c1, [h1 EXCEPT !.HeadOffset = originalNext,
                                         !.TailOffset =
                                             IF originalNext = NullOffset
                                             THEN NullOffset ELSE @], off)
        ELSE Then(readNodeAt(c1, prevOff), LAMBDA c2 :
    IF c2.err THEN Ret(c2, h1, FALSE, off)
    ELSE LET prevNode == [NodeOf(c2.buf) EXCEPT !.Next = originalNext]
    IN  Then(writeNodeAt(c2, prevOff, prevNode), LAMBDA c3 :
    IF c3.err THEN Ret(c3, h1, FALSE, off)
    ELSE deleteCommit(c3, [h1 EXCEPT !.TailOffset =
                                        IF off = h1.TailOffset THEN h1.HeadOffset ELSE @],
                      off))))

\* mutant of deleteMatch: the record before the deleted one keeps its link to it
deleteMatch_PrevNotRelinked(c, hdr, off, prevOff, node) ==
    LET originalNext == node.Next
    IN  Then(writeNodeAt(c, off, [node EXCEPT !.Tomb = 1, !.Next = hdr.FreeList]),
        LAMBDA c1 :
    IF c1.err THEN Ret(c1, hdr, FALSE, off)
    ELSE LET h1 == [hdr EXCEPT !.FreeList = off]
    IN  IF prevOff = NullOffset
        THEN \* head is deleted
             deleteCommit(c1, [h1 EXCEPT !.HeadOffset = originalNext,
                                         !.TailOffset =
                                             IF originalNext = NullOffset
                                             THEN NullOffset ELSE @], off)
        ELSE Then(readNodeAt(c1, prevOff), LAMBDA c2 :
    IF c2.err THEN Ret(c2, h1, FALSE, off)
    ELSE LET prevNode == NodeOf(c2.buf)
    IN  Then(writeNodeAt(c2, prevOff, prevNode), LAMBDA c3 :
    IF c3.err THEN Ret(c3, h1, FALSE, off)
    ELSE deleteCommit(c3, [h1 EXCEPT !.TailOffset =
                                        IF off = h1.TailOffset THEN prevOff ELSE @],
                      off))))

\* the match branch of deleteFirstByValue (lines 264-304): node is the live
\* record at off whose value matched
deleteMatch(c, hdr, off, prevOff, node) ==
    LET originalNext == node.Next
    IN  Then(writeNodeAt(c, off, [node EXCEPT !.Tomb = 1, !.Next = hdr.FreeList]),
        LAMBDA c1 :
    IF c1.err THEN Ret(c1, hdr, FALSE, off)
    ELSE LET h1 == [hdr EXCEPT !.FreeList = off]
    IN  IF prevOff = NullOffset
        THEN \* head is deleted
             deleteCommit(c1, [h1 EXCEPT !.HeadOffset = originalNext,
                                         !.TailOffset =
                                             IF originalNext = NullOffset
                                             THEN NullOffset ELSE @], off)
        ELSE Then(readNodeAt(c1, prevOff), LAMBDA c2 :
    IF c2.err THEN Ret(c2, h1, FALSE, off)
    ELSE LET prevNode == [NodeOf(c2.buf) EXCEPT !.Next = originalNext]
    IN  Then(writeNodeAt(c2, prevOff, prevNode), LAMBDA c3 :
    IF c3.err THEN Ret(c3, h1, FALSE, off)
    ELSE deleteCommit(c3, [h1 EXCEPT !.TailOffset =
                                        IF off = h1.TailOffset THEN prevOff ELSE @],
                      off))))

RECURSIVE deleteLoop(_, _, _, _, _, _)
\* the for loop of deleteFirstByValue; fuel counts the iterations left
\* before the loop has visited more records than the file can hold
deleteLoop(c, hdr, value, prevOff, off, fuel) ==
    IF off = NullOffset THEN Ret(c, hdr, FALSE, NullOffset)
    ELSE IF fuel = 0 THEN [Ret(c, hdr, FALSE, NullOffset) EXCEPT !.loop = TRUE]
    ELSE Then(readNodeAt(c, off), LAMBDA c1 :
         IF c1.err THEN Ret(c1, hdr, FALSE, NullOffset)
         ELSE Then(NodeOf(c1.buf), LAMBDA node :
         IF node.Value = value /\ node.Tomb = 0
         THEN deleteMatch(c1, hdr, off, prevOff, node)
         ELSE deleteLoop(c1, hdr, value, off, node.Next, fuel - 1)))

\* mutant of deleteFirstByValue: the header is rewritten also when no record matched
deleteFirstByValue_CommitsAlways(c, hdr, value) ==
    IF hdr.HeadOffset = NullOffset THEN Ret(c, hdr, FALSE, NullOffset)
    ELSE Then(deleteLoop(c, hdr, value, NullOffset, hdr.HeadOffset, Len(c.file) + 1),
         LAMBDA r : IF r.found THEN r ELSE [r EXCEPT !.c = writeHeader(r.c, r.h)])

deleteFirstByValue(c, hdr, value) ==
    IF hdr.HeadOffset = NullOffset THEN Ret(c, hdr, FALSE, NullOffset)
    ELSE deleteLoop(c, hdr, value, NullOffset, hdr.HeadOffset, Len(c.file) + 1)

\* what a traversal has collected: out are the values returned, offs the
\* addresses of the records they were read from, seen the addresses of all
\* records visited (tombstoned ones included)
NoneYet == [out |-> <<>>, offs |-> <<>>, seen |-> <<>>]
Visit(acc, addr, value, tomb) ==
    IF tomb = 0
    THEN [out |-> Append(acc.out, value), offs |-> Append(acc.offs, addr),
          seen |-> Append(acc.seen, addr)]
    ELSE [acc EXCEPT !.seen = Append(@, addr)]
\* the result of a traversal: the context, what it collected, whether it
\* returned an error and whether its loop ran past every record of the file
Walk(c, acc, err, loop) ==
    [c |-> c, out |-> acc.out, offs |-> acc.offs, seen |-> acc.seen,
     err |-> err, loop |-> loop]

RECURSIVE traverseLoop(_, _, _, _)
\* mutant of traverseLoop: each node read is written back where it was read
traverseLoop_WritesBack(c, off, acc, fuel) ==
    IF off = NullOffset THEN Walk(c, acc, FALSE, FALSE)
    ELSE IF fuel = 0 THEN Walk(c, acc, FALSE, TRUE)
    ELSE Then(readNodeAt(c, off), LAMBDA c0 :
         Then(IF c0.err THEN c0
              ELSE [writeNodeAt(c0, off, NodeOf(c0.buf)) EXCEPT !.buf = c0.buf],
         LAMBDA c1 :
         IF c1.err THEN Walk(c1, NoneYet, TRUE, FALSE)
         ELSE Then(NodeOf(c1.buf), LAMBDA node :
         Then(Visit(acc, off, node.Value, node.Tomb), LAMBDA acc1 :
         traverseLoop(c1, node.Next, acc1, fuel - 1)))))

\* the for loop of traverseValues
traverseLoop(c, off, acc, fuel) ==
    IF off = NullOffset THEN Walk(c, acc, FALSE, FALSE)
    ELSE IF fuel = 0 THEN Walk(c, acc, FALSE, TRUE)
    ELSE Then(readNodeAt(c, off), LAMBDA c1 :
         IF c1.err THEN Walk(c1, NoneYet, TRUE, FALSE)
         ELSE Then(NodeOf(c1.buf), LAMBDA node :
         Then(Visit(acc, off, node.Value, node.Tomb), LAMBDA acc1 :
         traverseLoop(c1, node.Next, acc1, fuel - 1))))

traverseValues(c, hdr) ==
    traverseLoop(c, hdr.HeadOffset, NoneYet, Len(c.file) + 1)

\* ====================================================== the paged scheme
PAGE_HEADER_SIZE == 2
SLOT_SIZE == 12
\* 4096 in the source; here the smallest page that holds MaxSlots slots
PAGE_SIZE == PAGE_HEADER_SIZE + SLOT_SIZE * MaxSlots
SLOTS_PER_PAGE == (PAGE_SIZE - PAGE_HEADER_SIZE) \div SLOT_SIZE
HEADER_SIZE == 32
\* ^uint32(0), held as the two's-complement value of its bits
NullPage == -1
\* ^uint16(0)
NullSlot == 65535

PagedHeaderBytes(h) ==
    AppendUint64(AppendUint16(AppendUint32(AppendUint16(AppendUint32(
        AppendUint32(AppendUint16(AppendUint16(h.Magic, h.Version), h.PageSize),
        h.PageCount), h.HeadPage), h.HeadSlot), h.TailPage), h.TailSlot), h.Size)

PagedWriteHeader(c, h) ==
    Then(Seek(c, 0), LAMBDA c1 :
    IF c1.err THEN c1 ELSE Write(c1, PagedHeaderBytes(h)))

PagedHeaderOf(buf) ==
    [Magic     |-> SubSeq(buf, 1, 4),
     Version   |-> Uint16(SubSeq(buf, 5, 6)),
     PageSize  |-> Uint16(SubSeq(buf, 7, 8)),
     PageCount |-> Uint32(SubSeq(buf, 9, 12)),
     HeadPage  |-> Uint32(SubSeq(buf, 13, 16)),
     HeadSlot  |-> Uint16(SubSeq(buf, 17, 18)),
     TailPage  |-> Uint32(SubSeq(buf, 19, 22)),
     TailSlot  |-> Uint16(SubSeq(buf, 23, 24)),
     Size      |-> Uint64(SubSeq(buf, 25, 32))]

\* mutant of PagedReadHeader: the tag read from the file is not compared with Magic
PagedReadHeader_TagNotChecked(c) ==
    Then(Seek(c, 0), LAMBDA c1 :
    IF c1.err THEN Opened(c1, <<>>, "io")
    ELSE Then(ReadFull(c1, HEADER_SIZE), LAMBDA c2 :
    IF c2.err THEN Opened(c2, <<>>, "io")
    ELSE Opened(c2, PagedHeaderOf(c2.buf), "")))

PagedReadHeader(c) ==
    Then(Seek(c, 0), LAMBDA c1 :
    IF c1.err THEN Opened(c1, <<>>, "io")
    ELSE Then(ReadFull(c1, HEADER_SIZE), LAMBDA c2 :
    IF c2.err THEN Opened(c2, <<>>, "io")
    ELSE IF SubSeq(c2.buf, 1, 4) # Magic THEN Opened(c2, <<>>, "magic")
    ELSE Opened(c2, PagedHeaderOf(c2.buf), "")))

\* PagedStore.Open: a fresh header is returned as written, not read back
PagedOpen(bytes, truncate, failAt) ==
    LET c0 == NewCtx(IF truncate THEN <<>> ELSE bytes, failAt)
        fresh == [Magic |-> Magic, Version |-> 2, PageSize |-> PAGE_SIZE,
                  PageCount |-> 0, HeadPage |-> NullPage, HeadSlot |-> NullSlot,
                  TailPage |-> NullPage, TailSlot |-> NullSlot, Size |-> 0]
    IN  IF Len(c0.file) = 0 \/ truncate
        THEN Then(PagedWriteHeader(c0, fresh), LAMBDA c1 :
             IF c1.err THEN Opened(c1, <<>>, "io") ELSE Opened(c1, fresh, ""))
        ELSE PagedReadHeader(c0)

pageOffset(pageID) == HEADER_SIZE + pageID * PAGE_SIZE

\* mutant of slotOffsetOf: slots are laid out one byte closer than their size
slotOffsetOf_ShortStride(pageID, slotID) ==
    pageOffset(pageID) + PAGE_HEADER_SIZE + (SLOT_SIZE - 1) * slotID

slotOffsetOf(pageID, slotID) ==
    pageOffset(pageID) + PAGE_HEADER_SIZE + SLOT_SIZE * slotID

initEmptyPage(c, pageID) ==
    Then(Seek(c, pageOffset(pageID)), LAMBDA c1 :
    IF c1.err THEN c1 ELSE Write(c1, Zeros(PAGE_SIZE)))

\* readPageHeader: the context after the call; Used is Uint16(c.buf)
readPageHeader(c, pageID) ==
    Then(Seek(c, pageOffset(pageID)), LAMBDA c1 :
    IF c1.err THEN c1 ELSE ReadFull(c1, PAGE_HEADER_SIZE))

writePageHeader(c, pageID, used) ==
    Then(Seek(c, pageOffset(pageID)), LAMBDA c1 :
    IF c1.err THEN c1 ELSE Write(c1, AppendUint16(<<>>, used)))

\* mutant of SlotBytes: the tombstone byte is stored as 0
SlotBytes_TombDropped(node) ==
    AppendUint16(AppendUint32(AppendUint32(<<>>, node.Value), node.NextPage),
                 node.NextSlot) \o <<0, node.pad>>

SlotBytes(node) ==
    AppendUint16(AppendUint32(AppendUint32(<<>>, node.Value), node.NextPage),
                 node.NextSlot) \o <<node.Tomb, node.pad>>

writeSlot(c, pageID, slotID, node) ==
    Then(Seek(c, slotOffsetOf(pageID, slotID)), LAMBDA c1 :
    IF c1.err THEN c1 ELSE Write(c1, SlotBytes(node)))

SlotOf(buf) ==
    [Value    |-> Uint32(SubSeq(buf, 1, 4)),
     NextPage |-> Uint32(SubSeq(buf, 5, 8)),
     NextSlot |-> Uint16(SubSeq(buf, 9, 10)),
     Tomb     |-> buf[11],
     pad      |-> buf[12]]

\* mutant of readSlot: the page header is read before the slot
readSlot_ReadsPageHeaderFirst(c, pageID, slotID) ==
    Then(readPageHeader(c, pageID), LAMBDA c0 :
    IF c0.err THEN c0
    ELSE Then(Seek(c0, slotOffsetOf(pageID, slotID)), LAMBDA c1 :
    IF c1.err THEN c1 ELSE ReadFull(c1, SLOT_SIZE)))

\* readSlot: the context after the call; the node is SlotOf(c.buf)
readSlot(c, pageID, slotID) ==
    Then(Seek(c, slotOffsetOf(pageID, slotID)), LAMBDA c1 :
    IF c1.err THEN c1 ELSE ReadFull(c1, SLOT_SIZE))

\* the result of allocateSlot; c.err tells a failure, and h keeps the
\* PageCount already set when a later step fails
Alloc(c, h, pageID, slotIndex) ==
    [c |-> c, h |-> h, pageID |-> pageID, slotIndex |-> slotIndex]

\* mutant of allocateSlot: a full last page is cleared and used again
allocateSlot_ClearsFullPage(c, h) ==
    Then(IF h.PageCount = 0 THEN initEmptyPage(c, 0) ELSE c, LAMBDA c1 :
    IF c1.err THEN Alloc(c1, h, 0, 0)
    ELSE LET h1 == IF h.PageCount = 0 THEN [h EXCEPT !.PageCount = 1] ELSE h
             page1 == IF h.PageCount = 0 THEN 0 ELSE h.PageCount - 1
    IN  Then(readPageHeader(c1, page1), LAMBDA c2 :
    IF c2.err THEN Alloc(c2, h1, page1, 0)
    ELSE LET used == Uint16(c2.buf)
             full == used >= SLOTS_PER_PAGE
    IN  Then(IF full THEN initEmptyPage(c2, page1) ELSE c2, LAMBDA c3 :
    IF c3.err THEN Alloc(c3, h1, h1.PageCount, 0)
    ELSE LET page2 == page1
             h2 == IF full THEN [h1 EXCEPT !.PageCount = @ + 1] ELSE h1
             slotIndex == IF full THEN 0 ELSE used
    IN  Alloc(writePageHeader(c3, page2, slotIndex + 1), h2, page2, slotIndex))))

\* mutant of allocateSlot: the used-slot-count stored is the slot handed out
allocateSlot_UsedNotAdvanced(c, h) ==
    Then(IF h.PageCount = 0 THEN initEmptyPage(c, 0) ELSE c, LAMBDA c1 :
    IF c1.err THEN Alloc(c1, h, 0, 0)
    ELSE LET h1 == IF h.PageCount = 0 THEN [h EXCEPT !.PageCount = 1] ELSE h
             page1 == IF h.PageCount = 0 THEN 0 ELSE h.PageCount - 1
    IN  Then(readPageHeader(c1, page1), LAMBDA c2 :
    IF c2.err THEN Alloc(c2, h1, page1, 0)
    ELSE LET used == Uint16(c2.buf)
             full == used >= SLOTS_PER_PAGE
    IN  Then(IF full THEN initEmptyPage(c2, h1.PageCount) ELSE c2, LAMBDA c3 :
    IF c3.err THEN Alloc(c3, h1, h1.PageCount, 0)
    ELSE LET page2 == IF full THEN h1.PageCount ELSE page1
             h2 == IF full THEN [h1 EXCEPT !.PageCount = @ + 1] ELSE h1
             slotIndex == IF full THEN 0 ELSE used
    IN  Alloc(writePageHeader(c3, page2, slotIndex), h2, page2, slotIndex))))

\* mutant of allocateSlot: a new page is opened before the last slot of a page is used
allocateSlot_LeavesLastSlot(c, h) ==
    Then(IF h.PageCount = 0 THEN initEmptyPage(c, 0) ELSE c, LAMBDA c1 :
    IF c1.err THEN Alloc(c1, h, 0, 0)
    ELSE LET h1 == IF h.PageCount = 0 THEN [h EXCEPT !.PageCount = 1] ELSE h
             page1 == IF h.PageCount = 0 THEN 0 ELSE h.PageCount - 1
    IN  Then(readPageHeader(c1, page1), LAMBDA c2 :
    IF c2.err THEN Alloc(c2, h1, page1, 0)
    ELSE LET used == Uint16(c2.buf)
             full == used >= SLOTS_PER_PAGE - 1
    IN  Then(IF full THEN initEmptyPage(c2, h1.PageCount) ELSE c2, LAMBDA c3 :
    IF c3.err THEN Alloc(c3, h1, h1.PageCount, 0)
    ELSE LET page2 == IF full THEN h1.PageCount ELSE page1
             h2 == IF full THEN [h1 EXCEPT !.PageCount = @ + 1] ELSE h1
             slotIndex == IF full THEN 0 ELSE used
    IN  Alloc(writePageHeader(c3, page2, slotIndex + 1), h2, page2, slotIndex))))

allocateSlot(c, h) ==
    Then(IF h.PageCount = 0 THEN initEmptyPage(c, 0) ELSE c, LAMBDA c1 :
    IF c1.err THEN Alloc(c1, h, 0, 0)
    ELSE LET h1 == IF h.PageCount = 0 THEN [h EXCEPT !.PageCount = 1] ELSE h
             page1 == IF h.PageCount = 0 THEN 0 ELSE h.PageCount - 1
    IN  Then(readPageHeader(c1, page1), LAMBDA c2 :
    IF c2.err THEN Alloc(c2, h1, page1, 0)
    ELSE LET used == Uint16(c2.buf)
             full == used >= SLOTS_PER_PAGE
    IN  Then(IF full THEN initEmptyPage(c2, h1.PageCount) ELSE c2, LAMBDA c3 :
    IF c3.err THEN Alloc(c3, h1, h1.PageCount, 0)
    ELSE LET page2 == IF full THEN h1.PageCount ELSE page1
             h2 == IF full THEN [h1 EXCEPT !.PageCount = @ + 1] ELSE h1
             slotIndex == IF full THEN 0 ELSE used
    IN  Alloc(writePageHeader(c3, page2, slotIndex + 1), h2, page2, slotIndex))))

NullAddr == <<NullPage, NullSlot>>

AppendTail(c, h0, value) ==
    Then(allocateSlot(c, h0), LAMBDA a :
    IF a.c.err THEN Ret(a.c, a.h, FALSE, NullAddr)
    ELSE LET h == a.h
             pageID == a.pageID
             slotIndex == a.slotIndex
             new == <<pageID, slotIndex>>
    IN  Then(Seek(a.c, slotOffsetOf(pageID, slotIndex)), LAMBDA c1 :
    IF c1.err THEN Ret(c1, h, FALSE, new)
    ELSE LET newNode == [Value |-> value, NextPage |-> NullPage,
                         NextSlot |-> NullSlot, Tomb |-> 0, pad |-> 0]
    IN  Then(writeSlot(c1, pageID, slotIndex, newNode), LAMBDA c2 :
    IF c2.err THEN Ret(c2, h, FALSE, new)
    ELSE IF h.HeadPage = NullPage
    THEN LET h1 == [h EXCEPT !.HeadPage = pageID, !.HeadSlot = slotIndex,
                             !.TailPage = pageID, !.TailSlot = slotIndex,
                             !.Size = @ + 1]
         IN  Ret(PagedWriteHeader(c2, h1), h1, FALSE, new)
    ELSE Then(readSlot(c2, h.TailPage, h.TailSlot), LAMBDA c3 :
    IF c3.err THEN Ret(c3, h, FALSE, new)
    ELSE LET tailNode == [SlotOf(c3.buf) EXCEPT !.NextPage = pageID,
                                                !.NextSlot = slotIndex]
    IN  Then(writeSlot(c3, h.TailPage, h.TailSlot, tailNode), LAMBDA c4 :
    IF c4.err THEN Ret(c4, h, FALSE, new)
    ELSE LET h2 == [h EXCEPT !.TailPage = pageID, !.TailSlot = slotIndex,
                             !.Size = @ + 1]
         IN  Ret(PagedWriteHeader(c4, h2), h2, FALSE, new))))))

\* mutant of PrependHead: the header is written before the new slot
PrependHead_HeaderFirst(c, h0, value) ==
    Then(allocateSlot(c, h0), LAMBDA a :
    IF a.c.err THEN Ret(a.c, a.h, FALSE, NullAddr)
    ELSE LET h == a.h
             pageID == a.pageID
             slotIndex == a.slotIndex
             new == <<pageID, slotIndex>>
             newNode == [Value |-> value, NextPage |-> h.HeadPage,
                         NextSlot |-> h.HeadSlot, Tomb |-> 0, pad |-> 0]
             h1 == [h EXCEPT
                      !.TailPage = IF h.HeadPage = NullPage THEN pageID ELSE @,
                      !.TailSlot = IF h.HeadPage = NullPage THEN slotIndex ELSE @,
                      !.HeadPage = pageID, !.HeadSlot = slotIndex,
                      !.Size = @ + 1]
    IN  Then(PagedWriteHeader(a.c, h1), LAMBDA c2 :
    IF c2.err THEN Ret(c2, h, FALSE, new)
    ELSE Ret(writeSlot(c2, pageID, slotIndex, newNode), h1, FALSE, new)))

PrependHead(c, h0, value) ==
    Then(allocateSlot(c, h0), LAMBDA a :
    IF a.c.err THEN Ret(a.c, a.h, FALSE, NullAddr)
    ELSE LET h == a.h
             pageID == a.pageID
             slotIndex == a.slotIndex
             new == <<pageID, slotIndex>>
             newNode == [Value |-> value, NextPage |-> h.HeadPage,
                         NextSlot |-> h.HeadSlot, Tomb |-> 0, pad |-> 0]
    IN  Then(writeSlot(a.c, pageID, slotIndex, newNode), LAMBDA c2 :
    IF c2.err THEN Ret(c2, h, FALSE, new)
    ELSE LET h1 == [h EXCEPT
                      !.TailPage = IF h.HeadPage = NullPage THEN pageID ELSE @,
                      !.TailSlot = IF h.HeadPage = NullPage THEN slotIndex ELSE @,
                      !.HeadPage = pageID, !.HeadSlot = slotIndex,
                      !.Size = @ + 1]
         IN  Ret(PagedWriteHeader(c2, h1), h1, FALSE, new)))

\* the buffer result of loadPage and readSlotWithBuffer
Loaded(c, pb, node) == [c |-> c, pb |-> pb, node |-> node]

\* mutant of loadPage: the buffer is filled but not marked valid
loadPage_LeavesInvalid(c, pb, pageID) ==
    Then(Seek(c, pageOffset(pageID)), LAMBDA c1 :
    IF c1.err THEN Loaded(c1, pb, <<>>)
    ELSE Then(ReadFull(c1, PAGE_SIZE), LAMBDA c2 :
    IF c2.err THEN Loaded(c2, pb, <<>>)
    ELSE Loaded(c2, [pageID |-> pageID, data |-> c2.buf, valid |-> FALSE], <<>>)))

\* PageBuffer.loadPage
loadPage(c, pb, pageID) ==
    Then(Seek(c, pageOffset(pageID)), LAMBDA c1 :
    IF c1.err THEN Loaded(c1, pb, <<>>)
    ELSE Then(ReadFull(c1, PAGE_SIZE), LAMBDA c2 :
    IF c2.err THEN Loaded(c2, pb, <<>>)
    ELSE Loaded(c2, [pageID |-> pageID, data |-> c2.buf, valid |-> TRUE], <<>>)))

\* mutant of readSlotWithBuffer: the page is read again for every slot
readSlotWithBuffer_AlwaysLoads(c, pb, pageID, slotID) ==
    Then(IF TRUE THEN loadPage(c, pb, pageID)
         ELSE Loaded(c, pb, <<>>), LAMBDA l :
    LET start == PAGE_HEADER_SIZE + SLOT_SIZE * slotID
    IN  IF l.c.err THEN l
        ELSE IF start + SLOT_SIZE > Len(l.pb.data)
             THEN Loaded([l.c EXCEPT !.err = TRUE], l.pb, <<>>)
        ELSE Loaded(l.c, l.pb,
                    SlotOf(SubSeq(l.pb.data, start + 1, start + SLOT_SIZE))))

\* mutant of readSlotWithBuffer: the value is sliced from the first slot of the buffered page
readSlotWithBuffer_ValueOfFirstSlot(c, pb, pageID, slotID) ==
    Then(IF ~pb.valid \/ pb.pageID # pageID THEN loadPage(c, pb, pageID)
         ELSE Loaded(c, pb, <<>>), LAMBDA l :
    LET start == PAGE_HEADER_SIZE + SLOT_SIZE * slotID
    IN  IF l.c.err THEN l
        ELSE IF start + SLOT_SIZE > Len(l.pb.data)
             THEN Loaded([l.c EXCEPT !.err = TRUE], l.pb, <<>>)
        ELSE Loaded(l.c, l.pb,
                    [SlotOf(SubSeq(l.pb.data, start + 1, start + SLOT_SIZE))
                        EXCEPT !.Value = Uint32(SubSeq(l.pb.data, PAGE_HEADER_SIZE + 1,
                                                       PAGE_HEADER_SIZE + 4))]))

\* readSlotWithBuffer; slicing a slot outside the page is an error
readSlotWithBuffer(c, pb, pageID, slotID) ==
    Then(IF ~pb.valid \/ pb.pageID # pageID THEN loadPage(c, pb, pageID)
         ELSE Loaded(c, pb, <<>>), LAMBDA l :
    LET start == PAGE_HEADER_SIZE + SLOT_SIZE * slotID
    IN  IF l.c.err THEN l
        ELSE IF start + SLOT_SIZE > Len(l.pb.data)
             THEN Loaded([l.c EXCEPT !.err = TRUE], l.pb, <<>>)
        ELSE Loaded(l.c, l.pb,
                    SlotOf(SubSeq(l.pb.data, start + 1, start + SLOT_SIZE))))

RECURSIVE TraverseLoop(_, _, _, _, _, _)
\* the for loop of PagedStore.TraverseValues
TraverseLoop(c, pb, page, slot, acc, fuel) ==
    IF ~(page # NullPage /\ slot # NullSlot) THEN Walk(c, acc, FALSE, FALSE)
    ELSE IF fuel = 0 THEN Walk(c, acc, FALSE, TRUE)
    ELSE Then(readSlotWithBuffer(c, pb, page, slot), LAMBDA r :
         IF r.c.err THEN Walk(r.c, NoneYet, TRUE, FALSE)
         ELSE Then(Visit(acc, <<page, slot>>, r.node.Value, r.node.Tomb),
              LAMBDA acc1 :
              TraverseLoop(r.c, r.pb, r.node.NextPage, r.node.NextSlot, acc1,
                           fuel - 1)))

TraverseValues(c, h) ==
    TraverseLoop(c, [pageID |-> 0, data |-> <<>>, valid |-> FALSE],
                 h.HeadPage, h.HeadSlot, NoneYet, Len(c.file) + 1)

RECURSIVE NaiveTraverseLoop(_, _, _, _, _)
\* the for loop of the unbuffered paged traverseValues: one readSlot per
\* record
NaiveTraverseLoop(c, page, slot, acc, fuel) ==
    IF ~(page # NullPage /\ slot # NullSlot) THEN Walk(c, acc, FALSE, FALSE)
    ELSE IF fuel = 0 THEN Walk(c, acc, FALSE, TRUE)
    ELSE Then(readSlot(c, page, slot), LAMBDA c1 :
         IF c1.err THEN Walk(c1, NoneYet, TRUE, FALSE)
         ELSE Then(SlotOf(c1.buf), LAMBDA node :
         Then(Visit(acc, <<page, slot>>, node.Value, node.Tomb), LAMBDA acc1 :
         NaiveTraverseLoop(c1, node.NextPage, node.NextSlot, acc1, fuel - 1))))

\* traverseValues of the unbuffered paged program
NaiveTraverseValues(c, h) ==
    NaiveTraverseLoop(c, h.HeadPage, h.HeadSlot, NoneYet, Len(c.file) + 1)

RECURSIVE PhysicalLoop(_, _, _, _, _, _)
\* mutant of PhysicalLoop: the used slots of a page are read from the last to the first
PhysicalLoop_SlotsDescending(c, h, pageID, slotID, used, acc) ==
    IF ~(pageID < h.PageCount) THEN Walk(c, acc, FALSE, FALSE)
    ELSE IF used = -1
    THEN Then(readPageHeader(c, pageID), LAMBDA c1 :
         IF c1.err THEN Walk(c1, NoneYet, TRUE, FALSE)
         ELSE Then(Uint16(c1.buf), LAMBDA u :
              PhysicalLoop(c1, h, pageID, 0, u, acc)))
    ELSE IF ~(slotID < used)
    THEN Then(pageID + 1, LAMBDA p : PhysicalLoop(c, h, p, 0, -1, acc))
    ELSE Then(readSlot(c, pageID, used - 1 - slotID), LAMBDA c1 :
         IF c1.err THEN Walk(c1, NoneYet, TRUE, FALSE)
         ELSE Then(SlotOf(c1.buf), LAMBDA node :
              Then(Visit(acc, <<pageID, used - 1 - slotID>>, node.Value, node.Tomb),
              LAMBDA acc1 :
              Then(slotID + 1, LAMBDA s1 :
              PhysicalLoop(c1, h, pageID, s1, used, acc1)))))

\* the two nested loops of TraverseValuesPhysical; used is the Used of the
\* page being scanned, -1 before its page header is read
PhysicalLoop(c, h, pageID, slotID, used, acc) ==
    IF ~(pageID < h.PageCount) THEN Walk(c, acc, FALSE, FALSE)
    ELSE IF used = -1
    THEN Then(readPageHeader(c, pageID), LAMBDA c1 :
         IF c1.err THEN Walk(c1, NoneYet, TRUE, FALSE)
         ELSE Then(Uint16(c1.buf), LAMBDA u :
              PhysicalLoop(c1, h, pageID, 0, u, acc)))
    ELSE IF ~(slotID < used)
    THEN Then(pageID + 1, LAMBDA p : PhysicalLoop(c, h, p, 0, -1, acc))
    ELSE Then(readSlot(c, pageID, slotID), LAMBDA c1 :
         IF c1.err THEN Walk(c1, NoneYet, TRUE, FALSE)
         ELSE Then(SlotOf(c1.buf), LAMBDA node :
              Then(Visit(acc, <<pageID, slotID>>, node.Value, node.Tomb),
              LAMBDA acc1 :
              Then(slotID + 1, LAMBDA s1 :
              PhysicalLoop(c1, h, pageID, s1, used, acc1)))))

TraverseValuesPhysical(c, h) ==
    PhysicalLoop(c, h, 0, 0, -1, NoneYet)

\* mutant of DeleteCommit: Size is not decremented
DeleteCommit_KeepsSize(c, h, addr) ==
    LET h1 == h
    IN  Then(PagedWriteHeader(c, h1), LAMBDA c5 : Ret(c5, h1, ~c5.err, addr))

\* the end of the match branch: Size-- when not zero, writeHeader, return
\* found unless the header write failed
DeleteCommit(c, h, addr) ==
    LET h1 == [h EXCEPT !.Size = IF @ # 0 THEN @ - 1 ELSE @]
    IN  Then(PagedWriteHeader(c, h1), LAMBDA c5 : Ret(c5, h1, ~c5.err, addr))

\* mutant of DeleteMatch: deleting the only record leaves the header's tail in place
DeleteMatch_KeepsTail(c, h, page, slot, prevPage, prevSlot, node) ==
    Then(writeSlot(c, page, slot, [node EXCEPT !.Tomb = 1]), LAMBDA c1 :
    IF c1.err THEN Ret(c1, h, FALSE, <<page, slot>>)
    ELSE IF prevPage = NullPage
    THEN LET emptied == node.NextPage = NullPage \/ node.NextSlot = NullSlot
         IN  DeleteCommit(c1,
                 [h EXCEPT !.HeadPage = node.NextPage, !.HeadSlot = node.NextSlot,
                           !.TailPage = @],
                 <<page, slot>>)
    ELSE Then(readSlot(c1, prevPage, prevSlot), LAMBDA c2 :
    IF c2.err THEN Ret(c2, h, FALSE, <<page, slot>>)
    ELSE LET prevNode == [SlotOf(c2.buf) EXCEPT !.NextPage = node.NextPage,
                                                !.NextSlot = node.NextSlot]
    IN  Then(writeSlot(c2, prevPage, prevSlot, prevNode), LAMBDA c3 :
    IF c3.err THEN Ret(c3, h, FALSE, <<page, slot>>)
    ELSE LET wasTail == page = h.TailPage /\ slot = h.TailSlot
         IN  DeleteCommit(c3,
                 [h EXCEPT !.TailPage = IF wasTail THEN prevPage ELSE @,
                           !.TailSlot = IF wasTail THEN prevSlot ELSE @],
                 <<page, slot>>))))

\* the match branch of PagedStore.DeleteFirstByValue (lines 557-593)
DeleteMatch(c, h, page, slot, prevPage, prevSlot, node) ==
    Then(writeSlot(c, page, slot, [node EXCEPT !.Tomb = 1]), LAMBDA c1 :
    IF c1.err THEN Ret(c1, h, FALSE, <<page, slot>>)
    ELSE IF prevPage = NullPage
    THEN LET emptied == node.NextPage = NullPage \/ node.NextSlot = NullSlot
         IN  DeleteCommit(c1,
                 [h EXCEPT !.HeadPage = node.NextPage, !.HeadSlot = node.NextSlot,
                           !.TailPage = IF emptied THEN NullPage ELSE @,
                           !.TailSlot = IF emptied THEN NullSlot ELSE @],
                 <<page, slot>>)
    ELSE Then(readSlot(c1, prevPage, prevSlot), LAMBDA c2 :
    IF c2.err THEN Ret(c2, h, FALSE, <<page, slot>>)
    ELSE LET prevNode == [SlotOf(c2.buf) EXCEPT !.NextPage = node.NextPage,
                                                !.NextSlot = node.NextSlot]
    IN  Then(writeSlot(c2, prevPage, prevSlot, prevNode), LAMBDA c3 :
    IF c3.err THEN Ret(c3, h, FALSE, <<page, slot>>)
    ELSE LET wasTail == page = h.TailPage /\ slot = h.TailSlot
         IN  DeleteCommit(c3,
                 [h EXCEPT !.TailPage = IF wasTail THEN prevPage ELSE @,
                           !.TailSlot = IF wasTail THEN prevSlot ELSE @],
                 <<page, slot>>))))

RECURSIVE DeleteLoop(_, _, _, _, _, _, _, _)
\* the for loop of PagedStore.DeleteFirstByValue
DeleteLoop(c, h, value, prevPage, prevSlot, page, slot, fuel) ==
    IF ~(page # NullPage /\ slot # NullSlot) THEN Ret(c, h, FALSE, NullAddr)
    ELSE IF fuel = 0 THEN [Ret(c, h, FALSE, NullAddr) EXCEPT !.loop = TRUE]
    ELSE Then(readSlot(c, page, slot), LAMBDA c1 :
         IF c1.err THEN Ret(c1, h, FALSE, NullAddr)
         ELSE Then(SlotOf(c1.buf), LAMBDA node :
         IF node.Value = value /\ node.Tomb = 0
         THEN DeleteMatch(c1, h, page, slot, prevPage, prevSlot, node)
         ELSE DeleteLoop(c1, h, value, page, slot,
                         node.NextPage, node.NextSlot, fuel - 1)))

DeleteFirstByValue(c, h, value) ==
    IF h.HeadPage = NullPage \/ h.HeadSlot = NullSlot
    THEN Ret(c, h, FALSE, NullAddr)
    ELSE DeleteLoop(c, h, value, NullPage, NullSlot, h.HeadPage, h.HeadSlot,
                    Len(c.file) + 1)

\* ====================================================== the state machine
VARIABLES
    scheme,     \* "offset" | "paged": which program owns the file
    disk,       \* the bytes of the file
    hdr,        \* the in-memory header of the handle
    open,       \* the handle is open
    log,        \* the I/O calls of the last operation, in order
    last,       \* the last operation: [op, value, err, found, addr]
    abs,        \* history: the abstract list of the successful operations
    nAdd,       \* history: appends and prepends that returned without error
    nDel,       \* history: deletes that returned found = true
    allocs,     \* history: appendTail / prependHead calls made
    dead,       \* history: addresses tombstoned by a delete that returned found
    committed,  \* history: logical traversal after the last successful operation
    failures,   \* history: operations that returned an error
    peer,       \* the paged list run side by side with the offset list
    cf,         \* a CountingFile: the wrapped file and its IOMetrics
    trav,       \* a buffered traversal in progress: its PageBuffer and cursor
    currentTree,\* the B-tree service's currentTree: nil or a *BTree
    treeMu,     \* the B-tree service's sync.RWMutex
    req,        \* the calls / HTTP requests on the B-tree, each with its position
    hist        \* history: the keys of the Insert calls that returned

vars == <<scheme, disk, hdr, open, log, last, abs, nAdd, nDel, allocs, dead,
          committed, failures, peer, cf, trav, currentTree, treeMu, req, hist>>

\* the variables of the B-tree and its service
svcVars == <<currentTree, treeMu, req, hist>>
\* the variables of the side-by-side run, of the I/O instrumentation, of a
\* traversal in progress and of the B-tree service
sideVars == <<peer, cf, trav, svcVars>>
\* no B-tree service runs beside the list programs
NoService == currentTree = <<>> /\ treeMu = <<>> /\ req = <<>> /\ hist = <<>>
\* no side-by-side run, no wrapped file, no traversal in progress
Absent == <<>>

\* logical traversal of the handle's list, as the scheme's traversal reads it
Traverse(sch, bytes, h) ==
    IF sch = "offset" THEN traverseValues(NewCtx(bytes, 0), h)
    ELSE TraverseValues(NewCtx(bytes, 0), h)

NullOf(sch) == IF sch = "offset" THEN NullOffset ELSE NullAddr

RECURSIVE RemoveFirst(_, _)
\* s without its first occurrence of v
RemoveFirst(s, v) ==
    IF Len(s) = 0 THEN s
    ELSE IF s[1] = v THEN SubSeq(s, 2, Len(s))
    ELSE <<s[1]>> \o RemoveFirst(SubSeq(s, 2, Len(s)), v)

Occurs(s, v) == \E i \in 1..Len(s) : s[i] = v

Init ==
    /\ scheme \in {"offset", "paged"}
    /\ LET o == IF scheme = "offset" THEN Open(<<>>, TRUE, 0)
                ELSE PagedOpen(<<>>, TRUE, 0)
       IN  /\ disk = o.c.file
           /\ hdr = o.h
           /\ log = o.c.log
    /\ open = TRUE
    /\ last = [op |-> "open", value |-> 0, err |-> FALSE, found |-> FALSE,
               addr |-> NullOf(scheme)]
    /\ abs = <<>>
    /\ nAdd = 0
    /\ nDel = 0
    /\ allocs = 0
    /\ dead = {}
    /\ committed = <<>>
    /\ failures = 0
    /\ peer = Absent
    /\ cf = Absent
    /\ trav = Absent
    /\ NoService

\* what a list operation op(v) that returned r leaves in the handle, the
\* file and the history
Recorded(op, v, r, newAbs) ==
    /\ disk' = r.c.file
    /\ hdr' = r.h
    /\ log' = r.c.log
    /\ last' = [op |-> op, value |-> v, err |-> r.c.err, found |-> r.found,
                addr |-> r.addr]
    /\ abs' = IF r.c.err THEN abs ELSE newAbs
    /\ nAdd' = IF ~r.c.err /\ op \in {"append", "prepend"} THEN nAdd + 1 ELSE nAdd
    /\ nDel' = IF ~r.c.err /\ r.found THEN nDel + 1 ELSE nDel
    /\ allocs' = IF op \in {"append", "prepend"} THEN allocs + 1 ELSE allocs
    /\ dead' = IF ~r.c.err /\ r.found THEN dead \cup {r.addr} ELSE dead
    /\ committed' = IF r.c.err THEN committed
                    ELSE Traverse(scheme, r.c.file, r.h).out
    /\ failures' = IF r.c.err THEN failures + 1 ELSE failures
    /\ UNCHANGED <<scheme, open>>

\* the state after a list operation op(v) returned r
Returned(op, v, r, newAbs) ==
    /\ Recorded(op, v, r, newAbs)
    /\ UNCHANGED sideVars

Usable == open /\ failures < MaxFailures

OffAppendTail(v, f) ==
    /\ Usable /\ scheme = "offset" /\ allocs < MaxRecs
    /\ \E r \in {appendTail(NewCtx(disk, f), hdr, v)} :
          Returned("append", v, r, Append(abs, v))

OffPrependHead(v, f) ==
    /\ Usable /\ scheme = "offset" /\ allocs < MaxRecs
    /\ \E r \in {prependHead(NewCtx(disk, f), hdr, v)} :
          Returned("prepend", v, r, <<v>> \o abs)

OffDeleteFirstByValue(v, f) ==
    /\ Usable /\ scheme = "offset"
    /\ \E r \in {deleteFirstByValue(NewCtx(disk, f), hdr, v)} :
          Returned("delete", v, r, RemoveFirst(abs, v))

PagedAppendTail(v, f) ==
    /\ Usable /\ scheme = "paged" /\ allocs < MaxRecs
    /\ \E r \in {AppendTail(NewCtx(disk, f), hdr, v)} :
          Returned("append", v, r, Append(abs, v))

PagedPrependHead(v, f) ==
    /\ Usable /\ scheme = "paged" /\ allocs < MaxRecs
    /\ \E r \in {PrependHead(NewCtx(disk, f), hdr, v)} :
          Returned("prepend", v, r, <<v>> \o abs)

PagedDeleteFirstByValue(v, f) ==
    /\ Usable /\ scheme = "paged"
    /\ \E r \in {DeleteFirstByValue(NewCtx(disk, f), hdr, v)} :
          Returned("delete", v, r, RemoveFirst(abs, v))

\* f.Close() / PagedStore.Close: the file keeps its bytes, the header object
\* keeps its fields; a process that stops here leaves the same file
Close ==
    /\ open
    /\ open' = FALSE
    /\ log' = <<>>
    /\ last' = [op |-> "close", value |-> 0, err |-> FALSE, found |-> FALSE,
                addr |-> NullOf(scheme)]
    /\ UNCHANGED <<scheme, disk, hdr, abs, nAdd, nDel, allocs, dead, committed,
                   failures, sideVars>>

\* Open(path, false) / PagedStore.Open(path, false) on the file left on disk
Reopen ==
    /\ ~open
    /\ LET o == IF scheme = "offset" THEN Open(disk, FALSE, 0)
                ELSE PagedOpen(disk, FALSE, 0)
       IN  /\ disk' = o.c.file
           /\ log' = o.c.log
           /\ open' = (o.err = "")
           /\ hdr' = IF o.err = "" THEN o.h ELSE hdr
           /\ last' = [op |-> "reopen", value |-> 0, err |-> o.err # "",
                       found |-> FALSE, addr |-> NullOf(scheme)]
    /\ UNCHANGED <<scheme, abs, nAdd, nDel, allocs, dead, committed, failures,
                   sideVars>>

\* every operation returns without an I/O failure
Next ==
    \/ \E v \in Values : OffAppendTail(v, 0)
    \/ \E v \in Values : OffPrependHead(v, 0)
    \/ \E v \in Values : OffDeleteFirstByValue(v, 0)
    \/ \E v \in Values : PagedAppendTail(v, 0)
    \/ \E v \in Values : PagedPrependHead(v, 0)
    \/ \E v \in Values : PagedDeleteFirstByValue(v, 0)
    \/ Close
    \/ Reopen

Spec == Init /\ [][Next]_vars

\* the process stops after an operation returned an error (main panics and
\* its deferred Close runs): the file keeps the bytes written so far
Crash ==
    /\ open /\ last.err
    /\ open' = FALSE
    /\ log' = <<>>
    /\ last' = [op |-> "crash", value |-> 0, err |-> FALSE, found |-> FALSE,
                addr |-> NullOf(scheme)]
    /\ UNCHANGED <<scheme, disk, hdr, abs, nAdd, nDel, allocs, dead, committed,
                   failures, sideVars>>

\* the I/O calls an operation issues when none fails
Calls(r) == Len(r.c.log)

\* operations may stop at any one of their I/O calls, which fails (f = 0:
\* none fails)
NextFail ==
    \/ Usable /\ scheme = "offset" /\ \E v \in Values :
         \E f \in 0..Calls(appendTail(NewCtx(disk, 0), hdr, v)) :
            OffAppendTail(v, f)
    \/ Usable /\ scheme = "offset" /\ \E v \in Values :
         \E f \in 0..Calls(prependHead(NewCtx(disk, 0), hdr, v)) :
            OffPrependHead(v, f)
    \/ Usable /\ scheme = "offset" /\ \E v \in Values :
         \E f \in 0..Calls(deleteFirstByValue(NewCtx(disk, 0), hdr, v)) :
            OffDeleteFirstByValue(v, f)
    \/ Usable /\ scheme = "paged" /\ \E v \in Values :
         \E f \in 0..Calls(AppendTail(NewCtx(disk, 0), hdr, v)) :
            PagedAppendTail(v, f)
    \/ Usable /\ scheme = "paged" /\ \E v \in Values :
         \E f \in 0..Calls(PrependHead(NewCtx(disk, 0), hdr, v)) :
            PagedPrependHead(v, f)
    \/ Usable /\ scheme = "paged" /\ \E v \in Values :
         \E f \in 0..Calls(DeleteFirstByValue(NewCtx(disk, 0), hdr, v)) :
            PagedDeleteFirstByValue(v, f)
    \/ Crash
    \/ Reopen

SpecFail == Init /\ [][NextFail]_vars

\* ================================================================ claims
\* what logical traversal on the open handle reads
Logical == Traverse(scheme, disk, hdr)
Range(q) == {q[i] : i \in 1..Len(q)}
NoRepeat(q) == \A i, j \in 1..Len(q) : q[i] = q[j] => i = j
HeadOf(h) == IF scheme = "offset" THEN h.HeadOffset ELSE <<h.HeadPage, h.HeadSlot>>
TailOf(h) == IF scheme = "offset" THEN h.TailOffset ELSE <<h.TailPage, h.TailSlot>>
IsListOp(o) == o \in {"append", "prepend", "delete"}

\* C1: with no record deleted so far, logical traversal equals the sequence
\* built by putting each prepended value at the front and each appended
\* value at the back, in both schemes.
C1_OrderOfAppendsAndPrepends ==
    nDel = 0 => (~Logical.err /\ Logical.out = abs)

C1_Witness ==
    /\ nDel = 0 /\ nAdd = 3 /\ last.op = "append" /\ ~last.err
    /\ abs = <<1, 0, 1>> /\ Logical.out = <<1, 0, 1>>

\* C2: a delete of v returns found exactly when v is among the values of
\* logical traversal, and then the traversal afterwards is the traversal
\* before without its first v, every other element kept in order; a delete
\* that does not find v leaves the traversal as it was.
C2_DeleteRemovesFirstOccurrence ==
    [][(last'.op = "delete" /\ ~last'.err) =>
         LET before == Logical.out
             after == Traverse(scheme, disk', hdr').out
         IN  /\ last'.found = Occurs(before, last'.value)
             /\ after = RemoveFirst(before, last'.value)]_vars

C2_Witness ==
    /\ last.op = "delete" /\ last.found /\ last.value = 1
    /\ Logical.out = <<0, 1>> /\ nAdd = 3 /\ nDel = 1

\* C3: the header's size is the number of successful appends and prepends
\* minus the number of deletes that returned found, and it is the length of
\* logical traversal.
C3_SizeIsAddsMinusDeletes ==
    /\ hdr.Size = nAdd - nDel
    /\ Len(Logical.out) = hdr.Size
    /\ Len(Logical.seen) = hdr.Size

C3_Witness == nAdd = 3 /\ nDel = 2 /\ hdr.Size = 1 /\ last.op = "delete"

NextAt(addr) ==
    IF scheme = "offset"
    THEN NodeOf(readNodeAt(NewCtx(disk, 0), addr).buf).Next
    ELSE LET n == SlotOf(readSlot(NewCtx(disk, 0), addr[1], addr[2]).buf)
         IN  <<n.NextPage, n.NextSlot>>

Physical == TraverseValuesPhysical(NewCtx(disk, 0), hdr)

OnDisk ==
    IF scheme = "offset" THEN readHeader(NewCtx(disk, 0))
    ELSE PagedReadHeader(NewCtx(disk, 0))

\* logical traversal that starts from the header stored in the file
Persisted == Traverse(scheme, disk, OnDisk.h)

\* C7: when an append, prepend or delete stops at a failing I/O call, the
\* list the on-disk header describes is the last committed one: traversal
\* from the on-disk head returns the committed values, the on-disk size is
\* its length and the on-disk tail addresses its last record.
C7_InterruptedOpLeavesCommittedList ==
    (last.err /\ IsListOp(last.op)) =>
       /\ OnDisk.err = "" /\ ~Persisted.err
       /\ Persisted.out = committed
       /\ OnDisk.h.Size = Len(Persisted.out)
       /\ TailOf(OnDisk.h) = IF Len(Persisted.offs) = 0 THEN NullOf(scheme)
                             ELSE Persisted.offs[Len(Persisted.offs)]

\* the byte offset and the size of the record at addr
RecordOffset(addr) ==
    IF scheme = "offset" THEN addr ELSE slotOffsetOf(addr[1], addr[2])
RecordSize == IF scheme = "offset" THEN nodeOnDiskSize ELSE SLOT_SIZE

\* the failed operation completed the write of its new record
NewRecordWritten ==
    \E i \in 1..(Len(log) - 1) :
        /\ log[i].call = "write"
        /\ log[i].off = RecordOffset(last.addr)
        /\ log[i].len = RecordSize

\* C8: when an append or prepend stops after its new record was written and
\* before its header write, logical traversal from the on-disk header does
\* not visit the new record.
C8_InterruptedAddLeavesOrphan ==
    (last.err /\ last.op \in {"append", "prepend"} /\ NewRecordWritten) =>
       last.addr \notin Range(Persisted.seen)

HeaderSizeOf(sch) == IF sch = "offset" THEN OffHeaderSize ELSE HEADER_SIZE
HeaderWrites == {i \in 1..Len(log) : log[i].call = "write" /\ log[i].off = 0}

\* C9: a successful append, prepend or found delete issues exactly one
\* write of the header, and it is the last I/O call of the operation, after
\* every record, pointer, tombstone and page-header write.
C9_HeaderWrittenLastAndOnce ==
    (IsListOp(last.op) /\ ~last.err /\ (last.op = "delete" => last.found)) =>
       /\ HeaderWrites = {Len(log)}
       /\ log[Len(log)].len = HeaderSizeOf(scheme)
       /\ \E i \in 1..(Len(log) - 1) : log[i].call = "write" /\ log[i].off > 0

C9_Witness ==
    /\ scheme = "paged" /\ last.op = "append" /\ ~last.err /\ nAdd = 3
    /\ hdr.PageCount = 2
    /\ Cardinality({i \in 1..Len(log) : log[i].call = "write"}) = 5

\* C10: reopening the closed file without truncation gives a header equal
\* field for field to the in-memory header before the close, and the same
\* logical traversal.
C10_ReopenReproducesHeaderAndList ==
    [][(~open /\ open') =>
         /\ hdr' = hdr
         /\ Traverse(scheme, disk', hdr').out = Logical.out
         /\ disk' = disk]_vars

C10_Witness ==
    /\ last.op = "reopen" /\ open /\ ~last.err /\ nAdd = 3 /\ nDel = 1
    /\ hdr.Size = 2 /\ Logical.out = <<1, 0>>

\* C15: a delete of a value that no live record holds (the empty list
\* included) returns found = false and no error, issues no write, and leaves
\* the in-memory header, the file (so the on-disk header) and the logical
\* traversal as they were.
C15_DeleteOfAbsentValueChangesNothing ==
    [][(last'.op = "delete" /\ ~Occurs(Logical.out, last'.value)) =>
          /\ ~last'.found /\ ~last'.err
          /\ \A i \in 1..Len(log') : log'[i].call # "write"
          /\ hdr' = hdr
          /\ disk' = disk
          /\ Traverse(scheme, disk', hdr').out = Logical.out]_vars

C15_Witness ==
    /\ last.op = "delete" /\ ~last.found /\ ~last.err /\ nDel = 1
    /\ Len(Logical.out) = 2 /\ last.value \notin Range(Logical.out)
    /\ Len(log) > 0

\* the used-slot-count stored in the page header of page p
UsedOf(bytes, p) == Uint16(SubSeq(bytes, pageOffset(p) + 1, pageOffset(p) + PAGE_HEADER_SIZE))

\* page p lies wholly inside the file
PageInFile(bytes, p) == pageOffset(p) + PAGE_SIZE <= Len(bytes)

\* C17: in the paged scheme an append, prepend or delete on an open handle,
\* failed ones included, never makes pageCount smaller, never removes a
\* page the handle counts, and never makes the used-slot-count of such a
\* page smaller.
C17_PagesOnlyGrow ==
    [][(scheme = "paged" /\ IsListOp(last'.op)) =>
          /\ hdr'.PageCount >= hdr.PageCount
          /\ \A p \in 0..(hdr.PageCount - 1) :
                /\ PageInFile(disk, p) /\ PageInFile(disk', p)
                /\ UsedOf(disk', p) >= UsedOf(disk, p)]_vars

C17_Witness ==
    /\ scheme = "paged" /\ last.op = "append" /\ last.err
    /\ hdr.PageCount = 2 /\ OnDisk.h.PageCount = 1
    /\ UsedOf(disk, 0) = SLOTS_PER_PAGE /\ UsedOf(disk, 1) = 1

\* the addresses of the records the file holds, live, tombstoned or
\* unreachable: every record-sized block after the offset header, every
\* slot below the used-slot-count of a counted page
RecordsIn(bytes, h) ==
    IF scheme = "offset"
    THEN {OffHeaderSize + k * nodeOnDiskSize :
             k \in 0..((Len(bytes) - OffHeaderSize) \div nodeOnDiskSize - 1)}
    ELSE {<<p, i>> : p \in 0..(h.PageCount - 1), i \in 0..(SLOTS_PER_PAGE - 1)}
            \cap {a \in (0..(h.PageCount - 1)) \X (0..(SLOTS_PER_PAGE - 1)) :
                     a[2] < UsedOf(bytes, a[1])}

\* C18: an append or prepend never reuses the space of a deleted record: in
\* the offset scheme the new record is at the end of the file, beyond every
\* record of the file, also when the free list is not empty; in the paged
\* scheme the slot handed out is no tombstoned slot (and no slot handed out
\* before).
C18_DeletedSpaceNotReused ==
    [][(last'.op \in {"append", "prepend"} /\ ~last'.err) =>
          /\ last'.addr \notin dead
          /\ last'.addr \notin RecordsIn(disk, hdr)
          /\ scheme = "offset" =>
                /\ last'.addr = Len(disk)
                /\ \A a \in RecordsIn(disk, hdr) \cup dead : last'.addr > a]_vars

C18_Witness ==
    /\ last.op \in {"append", "prepend"} /\ ~last.err /\ Cardinality(dead) = 1
    /\ nAdd = 3 /\ last.addr \notin dead
    /\ scheme = "offset" /\ hdr.FreeList \in dead /\ last.addr > hdr.FreeList

\* ========================================================= opening a file
\* the file a scheme leaves after creating an empty list
FreshFile(sch) ==
    IF sch = "offset" THEN Open(<<>>, TRUE, 0).c.file
    ELSE PagedOpen(<<>>, TRUE, 0).c.file

\* bytes with the byte at index i changed
WrongTag(bytes, i) == [bytes EXCEPT ![i] = (@ + 1) % 256]

\* what may be at the path before the program first opens it: nothing (or
\* an empty file), a file cut short, a file with another tag
FilesAt(sch) ==
    {<<>>}
    \cup {SubSeq(FreshFile(sch), 1, n) : n \in {1, 4, HeaderSizeOf(sch) - 1}}
    \cup {WrongTag(FreshFile(sch), i) : i \in 1..4}
    \cup {WrongTag(FreshFile(sch), 1) \o Zeros(RecordSize)}

\* no handle yet: the program has not opened the file at the path
InitOpen ==
    /\ scheme \in {"offset", "paged"}
    /\ disk \in FilesAt(scheme)
    /\ hdr = Absent
    /\ open = FALSE
    /\ log = <<>>
    /\ last = [op |-> "none", value |-> 0, err |-> FALSE, found |-> FALSE,
               addr |-> NullOf(scheme), why |-> ""]
    /\ abs = <<>>
    /\ nAdd = 0
    /\ nDel = 0
    /\ allocs = 0
    /\ dead = {}
    /\ committed = <<>>
    /\ failures = 0
    /\ peer = Absent
    /\ cf = Absent
    /\ trav = Absent
    /\ NoService

\* Open(path, truncate) / PagedStore.Open(path, truncate) on the file at the
\* path; last.value is the size Stat reports, before O_TRUNC applies
OpenPath(truncate) ==
    /\ ~open
    /\ \E o \in {IF scheme = "offset" THEN Open(disk, truncate, 0)
                 ELSE PagedOpen(disk, truncate, 0)} :
         LET fresh == o.err = "" /\ (Len(disk) = 0 \/ truncate)
         IN  /\ disk' = o.c.file
             /\ hdr' = o.h
             /\ open' = (o.err = "")
             /\ log' = o.c.log
             /\ last' = [op |-> IF truncate THEN "truncate"
                                ELSE IF Len(disk) = 0 THEN "create" ELSE "open",
                         value |-> Len(disk), err |-> o.err # "",
                         found |-> FALSE, addr |-> NullOf(scheme), why |-> o.err]
             /\ abs' = IF fresh THEN <<>> ELSE abs
             /\ nAdd' = IF fresh THEN 0 ELSE nAdd
             /\ nDel' = IF fresh THEN 0 ELSE nDel
             /\ allocs' = IF fresh THEN 0 ELSE allocs
             /\ dead' = IF fresh THEN {} ELSE dead
             /\ committed' = IF fresh THEN <<>> ELSE committed
    /\ UNCHANGED <<scheme, failures, sideVars>>

\* the other scheme's program opens, without truncate, the file this scheme
\* created, and closes it again
OpenByOther ==
    /\ ~open
    /\ OnDisk.err = ""
    /\ \E o \in {IF scheme = "offset" THEN PagedOpen(disk, FALSE, 0)
                 ELSE Open(disk, FALSE, 0)} :
         /\ disk' = o.c.file
         /\ log' = o.c.log
         /\ last' = [op |-> "openOther", value |-> Len(disk), err |-> o.err # "",
                     found |-> FALSE, addr |-> NullOf(scheme), why |-> o.err]
    /\ UNCHANGED <<scheme, hdr, open, abs, nAdd, nDel, allocs, dead, committed,
                   failures, sideVars>>

NextOpen ==
    \/ \E truncate \in BOOLEAN : OpenPath(truncate)
    \/ OpenByOther
    \/ \E v \in Values : OffAppendTail(v, 0)
    \/ \E v \in Values : OffPrependHead(v, 0)
    \/ \E v \in Values : OffDeleteFirstByValue(v, 0)
    \/ \E v \in Values : PagedAppendTail(v, 0)
    \/ \E v \in Values : PagedPrependHead(v, 0)
    \/ \E v \in Values : PagedDeleteFirstByValue(v, 0)
    \/ Close

SpecOpen == InitOpen /\ [][NextOpen]_vars

\* C11: a list opened on an absent or empty file, or opened with truncate on
\* a file that holds records, has head and tail null and size 0 (pageCount
\* 0, freeList null), the same header is on disk, and logical traversal
\* returns the empty sequence.
C11_FreshListIsEmpty ==
    (last.op \in {"create", "truncate"}) =>
       /\ open /\ ~last.err
       /\ HeadOf(hdr) = NullOf(scheme) /\ TailOf(hdr) = NullOf(scheme)
       /\ hdr.Size = 0
       /\ IF scheme = "offset" THEN hdr.FreeList = NullOffset
          ELSE hdr.PageCount = 0
       /\ OnDisk.err = "" /\ OnDisk.h = hdr
       /\ ~Logical.err /\ Logical.out = <<>>

C11_Witness ==
    /\ last.op = "truncate" /\ open /\ last.value > HeaderSizeOf(scheme)
    /\ Len(disk) = HeaderSizeOf(scheme) /\ hdr.Size = 0

\* the file is not empty and is not a list file of the scheme: shorter than
\* the header, or its first four bytes are not the tag
Foreign(bytes) ==
    /\ Len(bytes) > 0
    /\ \/ Len(bytes) < HeaderSizeOf(scheme)
       \/ SubSeq(bytes, 1, 4) # Magic

\* C13: opening without truncate a non-empty file whose first four bytes are
\* not the tag, or which is shorter than the header, returns an error: no
\* handle and no header are returned (the file is closed) and the file's
\* bytes are as before.
C13_ForeignFileRejected ==
    [][(last'.op = "open" /\ Foreign(disk)) =>
          /\ last'.err
          /\ ~open'
          /\ hdr' = Absent
          /\ disk' = disk
          /\ \A i \in 1..Len(log') : log'[i].call # "write"]_vars

C13_Witness ==
    /\ last.op = "open" /\ last.err /\ last.why = "magic" /\ ~open
    /\ hdr = Absent /\ Len(disk) > HeaderSizeOf(scheme)

\* C14: the tags tell the two formats apart: a file created by one scheme,
\* opened without truncate by the other scheme, is rejected with the
\* magic-mismatch error.
C14_TagsDistinguishSchemes ==
    (last.op = "openOther") => (last.err /\ last.why = "magic")

\* ====================================================== header round trip
\* field values: the null marks, small values, and values whose bytes all
\* differ (0x0102, 0x01020304)
Words16 == {0, 1, 258, 65535}
Words32 == {-1, 0, 16909060}
Words64 == {-1, 40, 16909060}

\* the headers a program may hold: the tag is the scheme's Magic
Headers(sch) ==
    IF sch = "offset"
    THEN [Magic : {Magic}, Version : {1, 258}, PageSize : {DefaultPageSize, 65535},
          HeadOffset : Words64, TailOffset : Words64, Size : {0, 16909060},
          FreeList : Words64]
    ELSE [Magic : {Magic}, Version : {2}, PageSize : {PAGE_SIZE, 258},
          PageCount : Words32, HeadPage : Words32, HeadSlot : Words16,
          TailPage : {NullPage, 1}, TailSlot : {NullSlot, 258},
          Size : {0, 16909060}]

\* a header object and a file: empty, or one that already holds a list
InitHeader ==
    /\ scheme \in {"offset", "paged"}
    /\ disk \in {<<>>, FreshFile(scheme) \o Zeros(RecordSize)}
    /\ hdr \in Headers(scheme)
    /\ open = TRUE
    /\ log = <<>>
    /\ last = [op |-> "none", value |-> 0, err |-> FALSE, found |-> FALSE,
               addr |-> NullOf(scheme)]
    /\ abs = <<>>
    /\ nAdd = 0
    /\ nDel = 0
    /\ allocs = 0
    /\ dead = {}
    /\ committed = <<>>
    /\ failures = 0
    /\ peer = Absent
    /\ cf = Absent
    /\ trav = Absent
    /\ NoService

\* writeHeader(f, hdr)
HeaderWrite ==
    /\ open /\ hdr # Absent
    /\ \E c \in {IF scheme = "offset" THEN writeHeader(NewCtx(disk, 0), hdr)
                 ELSE PagedWriteHeader(NewCtx(disk, 0), hdr)} :
         /\ disk' = c.file
         /\ log' = c.log
         /\ last' = [op |-> "writeHeader", value |-> 0, err |-> c.err,
                     found |-> FALSE, addr |-> NullOf(scheme)]
    /\ UNCHANGED <<scheme, hdr, open, abs, nAdd, nDel, allocs, dead, committed,
                   failures, sideVars>>

\* readHeader(f, &Header{}): the header object is the one read, none when
\* the read returns an error
HeaderRead ==
    /\ open
    /\ \E r \in {IF scheme = "offset" THEN readHeader(NewCtx(disk, 0))
                 ELSE PagedReadHeader(NewCtx(disk, 0))} :
         /\ hdr' = IF r.err = "" THEN r.h ELSE Absent
         /\ log' = r.c.log
         /\ last' = [op |-> "readHeader", value |-> 0, err |-> r.err # "",
                     found |-> FALSE, addr |-> NullOf(scheme)]
    /\ UNCHANGED <<scheme, disk, open, abs, nAdd, nDel, allocs, dead, committed,
                   failures, sideVars>>

NextHeader == HeaderWrite \/ HeaderRead

SpecHeader == InitHeader /\ [][NextHeader]_vars

\* C12: for any header h, writeHeader(h) followed by readHeader returns
\* success and a header whose every field equals the field of h.
C12_HeaderRoundTrip ==
    [][(last.op = "writeHeader" /\ ~last.err /\ last'.op = "readHeader") =>
          /\ ~last'.err
          /\ hdr' = hdr
          /\ DOMAIN hdr' = DOMAIN hdr]_vars

C12_Witness ==
    /\ last.op = "readHeader" /\ ~last.err
    /\ hdr.Size = 16909060 /\ hdr.PageSize # 4096
    /\ IF scheme = "offset" THEN hdr.FreeList = 40 /\ hdr.HeadOffset = -1
       ELSE hdr.HeadSlot = 258 /\ hdr.TailPage = 1

\* ========================================================== side by side
\* the paged list of the side-by-side run after an operation returned q
PeerAfter(q) ==
    [disk |-> q.c.file, hdr |-> q.h, found |-> q.found, err |-> q.c.err]

\* two fresh lists: the offset list in disk / hdr, the paged list in peer
InitPair ==
    /\ scheme = "offset"
    /\ \E o \in {Open(<<>>, TRUE, 0)} :
          /\ disk = o.c.file
          /\ hdr = o.h
          /\ log = o.c.log
    /\ \E o \in {PagedOpen(<<>>, TRUE, 0)} :
          peer = [disk |-> o.c.file, hdr |-> o.h, found |-> FALSE,
                  err |-> o.err # ""]
    /\ open = TRUE
    /\ last = [op |-> "open", value |-> 0, err |-> FALSE, found |-> FALSE,
               addr |-> NullOffset]
    /\ abs = <<>>
    /\ nAdd = 0
    /\ nDel = 0
    /\ allocs = 0
    /\ dead = {}
    /\ committed = <<>>
    /\ failures = 0
    /\ cf = Absent
    /\ trav = Absent
    /\ NoService

\* the same call on both lists
PairAppendTail(v) ==
    /\ Usable /\ allocs < MaxRecs
    /\ \E r \in {appendTail(NewCtx(disk, 0), hdr, v)} :
          Recorded("append", v, r, Append(abs, v))
    /\ peer' = PeerAfter(AppendTail(NewCtx(peer.disk, 0), peer.hdr, v))
    /\ cf' = cf
    /\ trav' = trav
    /\ UNCHANGED svcVars

PairPrependHead(v) ==
    /\ Usable /\ allocs < MaxRecs
    /\ \E r \in {prependHead(NewCtx(disk, 0), hdr, v)} :
          Recorded("prepend", v, r, <<v>> \o abs)
    /\ peer' = PeerAfter(PrependHead(NewCtx(peer.disk, 0), peer.hdr, v))
    /\ cf' = cf
    /\ trav' = trav
    /\ UNCHANGED svcVars

PairDeleteFirstByValue(v) ==
    /\ Usable
    /\ \E r \in {deleteFirstByValue(NewCtx(disk, 0), hdr, v)} :
          Recorded("delete", v, r, RemoveFirst(abs, v))
    /\ peer' = PeerAfter(DeleteFirstByValue(NewCtx(peer.disk, 0), peer.hdr, v))
    /\ cf' = cf
    /\ trav' = trav
    /\ UNCHANGED svcVars

NextPair ==
    \/ \E v \in Values : PairAppendTail(v)
    \/ \E v \in Values : PairPrependHead(v)
    \/ \E v \in Values : PairDeleteFirstByValue(v)

SpecPair == InitPair /\ [][NextPair]_vars

\* logical traversal of the paged list of the side-by-side run
PeerLogical == TraverseValues(NewCtx(peer.disk, 0), peer.hdr)

\* C16: run side by side on the same calls from fresh lists, the offset
\* scheme and the paged scheme return the same found result and the same
\* error result, and have the same size and the same logical traversal
\* after every call.
C16_SchemesAgree ==
    /\ peer.found = last.found
    /\ peer.err = last.err
    /\ peer.hdr.Size = hdr.Size
    /\ ~Logical.err /\ ~PeerLogical.err
    /\ PeerLogical.out = Logical.out

C16_Witness ==
    /\ last.op = "delete" /\ last.found /\ peer.found /\ nAdd = 3
    /\ Logical.out = <<1, 0>> /\ PeerLogical.out = <<1, 0>>
    /\ peer.hdr.PageCount = 2 /\ hdr.FreeList # NullOffset

\* ======================================================== CountingFile
\* calls made on one CountingFile
MaxCfCalls == 4

\* The wrapped os.File: its bytes, its position, whether it is closed, the
\* calls made on it and the index of the call that fails (0: none).  Every
\* call returns [f, n, data, err]: the file afterwards, the count or
\* position returned, the bytes read and the error ("" is nil).
OsFile(bytes, failAt) ==
    [file |-> bytes, pos |-> 0, closed |-> FALSE, calls |-> 0, fail |-> failAt]

OsResult(f, n, data, err) == [f |-> f, n |-> n, data |-> data, err |-> err]

\* the error the call about to be made returns without doing anything
OsRefused(u) ==
    IF u.closed THEN "closed" ELSE IF u.calls + 1 = u.fail THEN "io" ELSE ""

\* (*os.File).Read(p) with len(p) = n
OsRead(u, n) ==
    LET u1 == [u EXCEPT !.calls = @ + 1]
        m == IF u.pos + n > Len(u.file) THEN Len(u.file) - u.pos ELSE n
    IN  IF OsRefused(u) # "" THEN OsResult(u1, 0, <<>>, OsRefused(u))
        ELSE IF n > 0 /\ u.pos >= Len(u.file) THEN OsResult(u1, 0, <<>>, "EOF")
        ELSE OsResult([u1 EXCEPT !.pos = @ + m], m,
                      SubSeq(u.file, u.pos + 1, u.pos + m), "")

\* (*os.File).Write(p)
OsWrite(u, b) ==
    LET u1 == [u EXCEPT !.calls = @ + 1]
    IN  IF OsRefused(u) # "" THEN OsResult(u1, 0, <<>>, OsRefused(u))
        ELSE OsResult([u1 EXCEPT !.file = WriteAt(u.file, u.pos, b),
                                 !.pos = @ + Len(b)], Len(b), <<>>, "")

\* (*os.File).Seek(offset, whence)
OsSeek(u, offset, whence) ==
    LET u1 == [u EXCEPT !.calls = @ + 1]
        to == offset + (CASE whence = "start" -> 0
                          [] whence = "current" -> u.pos
                          [] whence = "end" -> Len(u.file))
    IN  IF OsRefused(u) # "" THEN OsResult(u1, 0, <<>>, OsRefused(u))
        ELSE IF to < 0 THEN OsResult(u1, 0, <<>>, "invalid")
        ELSE OsResult([u1 EXCEPT !.pos = to], to, <<>>, "")

\* (*os.File).Close()
OsClose(u) ==
    IF u.closed THEN OsResult(u, 0, <<>>, "closed")
    ELSE OsResult([u EXCEPT !.closed = TRUE], 0, <<>>, "")

\* a CountingFile after a call: the wrapped file, the counters, the call
\* made and what it returned
Counting(r, io, call) ==
    [f |-> r.f, Io |-> io, call |-> call,
     ret |-> [n |-> r.n, data |-> r.data, err |-> r.err]]

NewCountingFile(u) ==
    [f |-> u, Io |-> [Reads |-> 0, Writes |-> 0, Seeks |-> 0],
     call |-> [op |-> "New"], ret |-> [n |-> 0, data |-> <<>>, err |-> ""]]

CfRead(c, n) ==
    LET io == [c.Io EXCEPT !.Reads = @ + 1]
    IN  Counting(OsRead(c.f, n), io, [op |-> "Read", n |-> n])

CfWrite(c, b) ==
    LET io == [c.Io EXCEPT !.Writes = @ + 1]
    IN  Counting(OsWrite(c.f, b), io, [op |-> "Write", p |-> b])

\* mutant of CfSeek: a Seek that fails is not counted
CfSeek_NotCountedOnError(c, offset, whence) ==
    LET io == IF OsSeek(c.f, offset, whence).err = ""
              THEN [c.Io EXCEPT !.Seeks = @ + 1] ELSE c.Io
    IN  Counting(OsSeek(c.f, offset, whence), io,
                 [op |-> "Seek", offset |-> offset, whence |-> whence])

CfSeek(c, offset, whence) ==
    LET io == [c.Io EXCEPT !.Seeks = @ + 1]
    IN  Counting(OsSeek(c.f, offset, whence), io,
                 [op |-> "Seek", offset |-> offset, whence |-> whence])

CfClose(c) == Counting(OsClose(c.f), c.Io, [op |-> "Close"])

\* a CountingFile around a file, empty or not, one of whose calls may fail
InitCounting ==
    /\ \E bytes \in {<<>>, <<1, 2, 3>>} : \E failAt \in 0..MaxCfCalls :
          cf = NewCountingFile(OsFile(bytes, failAt))
    /\ scheme = "offset"
    /\ disk = <<>>
    /\ hdr = Absent
    /\ open = FALSE
    /\ log = <<>>
    /\ last = [op |-> "none", value |-> 0, err |-> FALSE, found |-> FALSE,
               addr |-> NullOffset]
    /\ abs = <<>>
    /\ nAdd = 0
    /\ nDel = 0
    /\ allocs = 0
    /\ dead = {}
    /\ committed = <<>>
    /\ failures = 0
    /\ peer = Absent
    /\ trav = Absent
    /\ NoService

\* the list variables take no part in the calls on a CountingFile
listVars == <<scheme, disk, hdr, open, log, last, abs, nAdd, nDel, allocs,
              dead, committed, failures>>

CanCall == cf # Absent /\ cf.f.calls < MaxCfCalls

CountingRead(n) ==
    /\ CanCall
    /\ cf' = CfRead(cf, n)
    /\ UNCHANGED <<listVars, peer, trav, svcVars>>

CountingWrite(b) ==
    /\ CanCall
    /\ cf' = CfWrite(cf, b)
    /\ UNCHANGED <<listVars, peer, trav, svcVars>>

CountingSeek(offset, whence) ==
    /\ CanCall
    /\ cf' = CfSeek(cf, offset, whence)
    /\ UNCHANGED <<listVars, peer, trav, svcVars>>

CountingClose ==
    /\ cf # Absent /\ cf.call.op # "Close"
    /\ cf' = CfClose(cf)
    /\ UNCHANGED <<listVars, peer, trav, svcVars>>

NextCounting ==
    \/ \E n \in {0, 2} : CountingRead(n)
    \/ \E b \in {<<7>>, <<8, 9>>} : CountingWrite(b)
    \/ \E offset \in {-1, 0, 1} : \E whence \in {"start", "current", "end"} :
          CountingSeek(offset, whence)
    \/ CountingClose

SpecCounting == InitCounting /\ [][NextCounting]_vars

\* what the wrapped file alone returns for the call, made on file u
Underlying(u, call) ==
    CASE call.op = "Read" -> OsRead(u, call.n)
      [] call.op = "Write" -> OsWrite(u, call.p)
      [] call.op = "Seek" -> OsSeek(u, call.offset, call.whence)
      [] call.op = "Close" -> OsClose(u)

\* the counter a call counts on
CounterOf(op) ==
    CASE op = "Read" -> "Reads" [] op = "Write" -> "Writes"
      [] op = "Seek" -> "Seeks" [] op = "Close" -> "none"

\* C19: every Read, Write or Seek on a CountingFile adds exactly 1 to its
\* own counter and leaves the other two as they were, also when the wrapped
\* call fails; it returns the result and the error of the wrapped file and
\* leaves the wrapped file as that call alone does; Close changes no
\* counter.
C19_CountingIsObservational ==
    [][cf' # cf =>
          /\ \A k \in {"Reads", "Writes", "Seeks"} :
                cf'.Io[k] = cf.Io[k] + (IF k = CounterOf(cf'.call.op) THEN 1 ELSE 0)
          /\ \E r \in {Underlying(cf.f, cf'.call)} :
                /\ cf'.ret = [n |-> r.n, data |-> r.data, err |-> r.err]
                /\ cf'.f = r.f]_vars

C19_Witness ==
    /\ cf.call.op = "Write" /\ cf.ret.err = "io"
    /\ cf.Io = [Reads |-> 1, Writes |-> 2, Seeks |-> 1]
    /\ cf.f.file = <<1, 7, 3>>

\* ===================================================== traversal and I/O
\* records allocated in one paged file when traversals are compared
MaxTravRecs == 4

InitTraverse == Init /\ scheme = "paged"

TravAppendTail(v) ==
    /\ Usable /\ scheme = "paged" /\ allocs < MaxTravRecs
    /\ \E r \in {AppendTail(NewCtx(disk, 0), hdr, v)} :
          Returned("append", v, r, Append(abs, v))

TravPrependHead(v) ==
    /\ Usable /\ scheme = "paged" /\ allocs < MaxTravRecs
    /\ \E r \in {PrependHead(NewCtx(disk, 0), hdr, v)} :
          Returned("prepend", v, r, <<v>> \o abs)

\* a traversal that returned w: the file is what its I/O calls left, the
\* header object is passed to it and never assigned
Traversed(op, w) ==
    /\ log' = w.c.log
    /\ disk' = w.c.file
    /\ last' = [op |-> op, value |-> Len(w.out), err |-> w.err, found |-> FALSE,
                addr |-> NullAddr, out |-> w.out]
    /\ UNCHANGED <<scheme, hdr, open, abs, nAdd, nDel, allocs, dead,
                   committed, failures, sideVars>>

\* PagedStore.TraverseValues, through the page buffer
BufferedTraverse ==
    /\ Usable /\ scheme = "paged"
    /\ Traversed("traverse", TraverseValues(NewCtx(disk, 0), hdr))

\* traverseValues of the unbuffered program on the same file
NaiveTraverse ==
    /\ Usable /\ scheme = "paged"
    /\ Traversed("traverseNaive", NaiveTraverseValues(NewCtx(disk, 0), hdr))

NextTraverse ==
    \/ \E v \in Values : TravAppendTail(v)
    \/ \E v \in Values : TravPrependHead(v)
    \/ \E v \in Values : PagedDeleteFirstByValue(v, 0)
    \/ BufferedTraverse
    \/ NaiveTraverse

SpecTraverse == InitTraverse /\ [][NextTraverse]_vars

\* the read calls among I/O calls
Reads(calls) == Cardinality({i \in 1..Len(calls) : calls[i].call = "read"})

Buffered == TraverseValues(NewCtx(disk, 0), hdr)
Naive == NaiveTraverseValues(NewCtx(disk, 0), hdr)

\* the maximal runs of consecutive visits to one page
PageRuns(seen) ==
    Cardinality({i \in 1..Len(seen) : i = 1 \/ seen[i][1] # seen[i - 1][1]})

\* two live records are in one page
LiveShareAPage(w) ==
    \E i, j \in 1..Len(w.offs) : i # j /\ w.offs[i][1] = w.offs[j][1]

\* two records visited one after the other are in one page
NeighboursShareAPage(w) ==
    \E i \in 1..(Len(w.seen) - 1) : w.seen[i][1] = w.seen[i + 1][1]

\* C20: buffered logical traversal of a paged list issues at most one page
\* read per distinct page visited in sequence, and strictly fewer reads
\* than the per-slot traversal of the same list whenever several live
\* records share a page.
C20_BufferedReadsFewer ==
    /\ Reads(Buffered.c.log) <= PageRuns(Buffered.seen)
    /\ LiveShareAPage(Buffered) => Reads(Buffered.c.log) < Reads(Naive.c.log)

\* C20 amended: buffered logical traversal of a paged list issues at most
\* one page read per run of consecutive visits to one page, returns the
\* values the per-slot traversal returns, and issues strictly fewer reads
\* than the per-slot traversal whenever two records visited one after the
\* other share a page.
C20_BufferedReadsPerPageRun ==
    /\ ~Buffered.err /\ ~Naive.err /\ Buffered.out = Naive.out
    /\ Reads(Buffered.c.log) <= PageRuns(Buffered.seen)
    /\ NeighboursShareAPage(Buffered) => Reads(Buffered.c.log) < Reads(Naive.c.log)
    /\ last.op = "traverse" => log = Buffered.c.log
    /\ last.op = "traverseNaive" => log = Naive.c.log

C20_Witness ==
    /\ last.op = "traverse" /\ ~last.err /\ last.value = 4
    /\ Reads(log) = 3 /\ Reads(Naive.c.log) = 4
    /\ hdr.PageCount = 2

\* ================================================== allocation and layout
\* the bytes of page p
PageBytes(bytes, p) == SubSeq(bytes, pageOffset(p) + 1, pageOffset(p) + PAGE_SIZE)

\* the bytes of the slots of page p after slot i
SlotsAfter(bytes, p, i) ==
    SubSeq(bytes, slotOffsetOf(p, i + 1) + 1, pageOffset(p) + PAGE_SIZE)

\* C21: allocateSlot, as a successful paged append or prepend shows it:
\* with no page it hands out (0, 0) and sets pageCount to 1; with used-
\* slot-count u < slotsPerPage in the last page it hands out
\* (pageCount-1, u), keeps pageCount and stores u+1; otherwise it hands out
\* (old pageCount, 0) in a new page whose other slots are zero bytes, adds
\* one to pageCount and stores the used count 1.
C21_AllocationPolicy ==
    [][(scheme = "paged" /\ last'.op \in {"append", "prepend"} /\ ~last'.err) =>
         LET n == hdr.PageCount
             u == IF n = 0 THEN 0 ELSE UsedOf(disk, n - 1)
         IN  IF n = 0
             THEN /\ last'.addr = <<0, 0>> /\ hdr'.PageCount = 1
                  /\ UsedOf(disk', 0) = 1
                  /\ SlotsAfter(disk', 0, 0) = Zeros(PAGE_SIZE - PAGE_HEADER_SIZE - SLOT_SIZE)
             ELSE IF u < SLOTS_PER_PAGE
             THEN /\ last'.addr = <<n - 1, u>> /\ hdr'.PageCount = n
                  /\ UsedOf(disk', n - 1) = u + 1
                  /\ Len(disk') = Len(disk)
             ELSE /\ last'.addr = <<n, 0>> /\ hdr'.PageCount = n + 1
                  /\ UsedOf(disk', n) = 1
                  /\ UsedOf(disk', n - 1) = u
                  /\ Len(disk') = pageOffset(n) + PAGE_SIZE
                  /\ SlotsAfter(disk', n, 0) = Zeros(PAGE_SIZE - PAGE_HEADER_SIZE - SLOT_SIZE)]_vars

C21_Witness ==
    /\ scheme = "paged" /\ last.op = "prepend" /\ ~last.err /\ nAdd = 3
    /\ last.addr = <<1, 0>> /\ hdr.PageCount = 2
    /\ UsedOf(disk, 0) = SLOTS_PER_PAGE /\ UsedOf(disk, 1) = 1

\* how many times v occurs in q
Count(q, v) == Cardinality({i \in 1..Len(q) : q[i] = v})

\* q without its i-th element
Without(q, i) == SubSeq(q, 1, i - 1) \o SubSeq(q, i + 1, Len(q))

\* C22: after successful operations on a paged list, physical traversal
\* returns the values of the non-tombstoned records in the order of their
\* creation: it is empty on a fresh list, a successful append or prepend
\* puts its record last, a found delete removes its record and keeps the
\* order of the others, anything else leaves it alone; it is a permutation
\* of logical traversal and has length size.
C22_PhysicalIsCreationOrder ==
    /\ [](scheme = "paged" =>
            /\ ~Physical.err
            /\ Len(Physical.out) = hdr.Size
            /\ \A v \in Values : Count(Physical.out, v) = Count(Logical.out, v)
            /\ Range(Physical.offs) = Range(Logical.offs)
            /\ nAdd = 0 => Physical.out = <<>>)
    /\ [][scheme = "paged" =>
            LET before == Physical
                after == TraverseValuesPhysical(NewCtx(disk', 0), hdr')
            IN  IF last'.op \in {"append", "prepend"}
                THEN /\ after.offs = Append(before.offs, last'.addr)
                     /\ after.out = Append(before.out, last'.value)
                ELSE IF last'.op = "delete" /\ last'.found
                THEN \E i \in 1..Len(before.offs) :
                        /\ before.offs[i] = last'.addr
                        /\ before.out[i] = last'.value
                        /\ after.offs = Without(before.offs, i)
                        /\ after.out = Without(before.out, i)
                ELSE after.offs = before.offs /\ after.out = before.out]_vars

C22_Witness ==
    /\ scheme = "paged" /\ last.op = "delete" /\ last.found /\ ~last.err
    /\ nAdd = 3 /\ nDel = 1
    /\ Physical.out = <<0, 1>> /\ Logical.out = <<1, 0>>
    /\ Physical.offs = <<<<0, 0>>, <<1, 0>>>>

\* ======================================================= the page buffer
\* TraverseValues up to its loop: "var pb PageBuffer", the cursor at head
BufferedBegin ==
    /\ Usable /\ scheme = "paged" /\ trav = Absent
    /\ trav' = [pb |-> [pageID |-> 0, data |-> <<>>, valid |-> FALSE],
                page |-> hdr.HeadPage, slot |-> hdr.HeadSlot, err |-> FALSE]
    /\ log' = <<>>
    /\ last' = [op |-> "traverseBegin", value |-> 0, err |-> FALSE,
                found |-> FALSE, addr |-> NullAddr]
    /\ UNCHANGED <<scheme, disk, hdr, open, abs, nAdd, nDel, allocs, dead,
                   committed, failures, peer, cf, svcVars>>

\* one turn of the loop of TraverseValues: readSlotWithBuffer at the cursor,
\* whose f-th I/O call fails (0: none), then the cursor moves to next
BufferedRead(f) ==
    /\ trav # Absent /\ ~trav.err
    /\ trav.page # NullPage /\ trav.slot # NullSlot
    /\ \E r \in {readSlotWithBuffer(NewCtx(disk, f), trav.pb, trav.page, trav.slot)} :
          /\ trav' = IF r.c.err THEN [trav EXCEPT !.pb = r.pb, !.err = TRUE]
                     ELSE [pb |-> r.pb, page |-> r.node.NextPage,
                           slot |-> r.node.NextSlot, err |-> FALSE]
          /\ log' = r.c.log
          /\ last' = [op |-> "readSlot",
                      value |-> IF r.c.err THEN 0 ELSE r.node.Value,
                      err |-> r.c.err, found |-> FALSE,
                      addr |-> <<trav.page, trav.slot>>]
    /\ UNCHANGED <<scheme, disk, hdr, open, abs, nAdd, nDel, allocs, dead,
                   committed, failures, peer, cf, svcVars>>

\* TraverseValues returns: the buffer goes with the call
BufferedEnd ==
    /\ trav # Absent
    /\ trav.err \/ ~(trav.page # NullPage /\ trav.slot # NullSlot)
    /\ trav' = Absent
    /\ log' = <<>>
    /\ last' = [op |-> "traverseEnd", value |-> 0, err |-> trav.err,
                found |-> FALSE, addr |-> NullAddr]
    /\ UNCHANGED <<scheme, disk, hdr, open, abs, nAdd, nDel, allocs, dead,
                   committed, failures, peer, cf, svcVars>>

\* list operations run between traversals, never inside one
NextBuffer ==
    \/ trav = Absent /\ \E v \in Values : PagedAppendTail(v, 0)
    \/ trav = Absent /\ \E v \in Values : PagedPrependHead(v, 0)
    \/ trav = Absent /\ \E v \in Values : PagedDeleteFirstByValue(v, 0)
    \/ BufferedBegin
    \/ \E f \in 0..2 : BufferedRead(f)
    \/ BufferedEnd

SpecBuffer == InitTraverse /\ [][NextBuffer]_vars

\* the buffer holds page p
Holds(pb, p) == pb.valid /\ pb.pageID = p

\* C23: a slot read through the page buffer that returns without error
\* issued exactly one read, of the whole requested page, when the buffer
\* was invalid or held another page, and no I/O call at all when it held
\* the requested page; afterwards the buffer is valid, holds the requested
\* page id and the bytes of that one page, and the slot returned is the one
\* stored in the file.  A read that returns an error issued at most one
\* read and leaves the buffer's page id and validity as they were.
C23_PageBufferCache ==
    [][last'.op = "readSlot" =>
         LET p == last'.addr[1]
             i == last'.addr[2]
             hit == Holds(trav.pb, p)
         IN  /\ hit => (log' = <<>> /\ ~last'.err /\ trav'.pb = trav.pb)
             /\ (~hit /\ ~last'.err) =>
                   /\ Reads(log') = 1 /\ Len(log') = 2
                   /\ log'[2] = [call |-> "read", off |-> pageOffset(p),
                                 len |-> PAGE_SIZE]
             /\ ~last'.err =>
                   /\ Holds(trav'.pb, p)
                   /\ trav'.pb.data = PageBytes(disk, p)
                   /\ Len(trav'.pb.data) = PAGE_SIZE
                   /\ \E n \in {SlotOf(readSlot(NewCtx(disk, 0), p, i).buf)} :
                         /\ last'.value = n.Value
                         /\ trav'.page = n.NextPage /\ trav'.slot = n.NextSlot
             /\ last'.err =>
                   /\ Reads(log') <= 1
                   /\ trav'.pb.valid = trav.pb.valid
                   /\ trav'.pb.pageID = trav.pb.pageID]_vars

\* a read served from the buffer, after the buffer changed pages once
C23_Witness ==
    /\ last.op = "readSlot" /\ ~last.err /\ log = <<>>
    /\ trav # Absent /\ Holds(trav.pb, 0) /\ last.addr = <<0, 1>>
    /\ hdr.PageCount = 2 /\ HeadOf(hdr) = <<1, 0>>

\* ============================================== buffered against per-slot
\* C24: on every paged list built by appends, prepends and deletes,
\* buffered logical traversal returns without error the value sequence that
\* per-slot logical traversal returns, from the same records in the same
\* order, and it writes nothing: the file after the call is the file before.
C24_BufferedEqualsNaive ==
    /\ ~Buffered.err /\ ~Naive.err /\ ~Buffered.loop /\ ~Naive.loop
    /\ Buffered.out = Naive.out
    /\ Buffered.offs = Naive.offs
    /\ Buffered.seen = Naive.seen
    /\ Buffered.c.file = disk
    /\ \A i \in 1..Len(Buffered.c.log) : Buffered.c.log[i].call # "write"
    /\ last.op = "traverse" => (~last.err /\ last.value = Len(Naive.out))

\* a traversal that was served from the buffer, on a list with a deleted
\* record and records in two pages
C24_Witness ==
    /\ last.op = "traverse" /\ ~last.err /\ nDel = 1 /\ nAdd = 4
    /\ Buffered.out = <<1, 0, 1>> /\ Naive.out = <<1, 0, 1>>
    /\ Reads(log) = 2 /\ hdr.PageCount = 2

\* ================================================ the I/O of a traversal
\* traverseValues of the offset program on the handle's file
OffTraverse ==
    /\ Usable /\ scheme = "offset"
    /\ Traversed("traverseNaive", traverseValues(NewCtx(disk, 0), hdr))

NextIO ==
    \/ \E v \in Values : OffAppendTail(v, 0)
    \/ \E v \in Values : OffPrependHead(v, 0)
    \/ \E v \in Values : OffDeleteFirstByValue(v, 0)
    \/ \E v \in Values : PagedAppendTail(v, 0)
    \/ \E v \in Values : PagedPrependHead(v, 0)
    \/ \E v \in Values : PagedDeleteFirstByValue(v, 0)
    \/ OffTraverse
    \/ NaiveTraverse
    \/ BufferedTraverse

SpecIO == Init /\ [][NextIO]_vars

\* traversal that reads one record per I/O, in the scheme of the file
PerRecord ==
    IF scheme = "offset" THEN traverseValues(NewCtx(disk, 0), hdr) ELSE Naive

CallsOf(calls, kind) == Cardinality({i \in 1..Len(calls) : calls[i].call = kind})

CeilDiv(a, b) == (a + b - 1) \div b

\* nothing was deleted and every record follows, in the list, the records
\* created before it: the list was built by appends only (a prepend to the
\* empty list writes the bytes an append writes)
AppendsOnly ==
    /\ nDel = 0 /\ dead = {} /\ failures = 0
    /\ Logical.seen = Physical.seen

\* C25: per-record logical traversal of a list of n reachable records
\* issues n seeks, n reads and no write, one seek then one read of the
\* record for each record visited, in both schemes; on a paged list built
\* by appends only, buffered traversal issues ceil(n / slotsPerPage) page
\* reads.
C25_TraversalIOCounts ==
    /\ \E w \in {PerRecord} : \E n \in {Len(w.seen)} :
          /\ ~w.err /\ n = nAdd - nDel /\ n = hdr.Size
          /\ CallsOf(w.c.log, "read") = n
          /\ CallsOf(w.c.log, "seek") = n
          /\ CallsOf(w.c.log, "write") = 0
          /\ Len(w.c.log) = 2 * n
          /\ \A i \in 1..n :
                /\ w.c.log[2 * i - 1] =
                      [call |-> "seek", off |-> RecordOffset(w.seen[i]), len |-> 0]
                /\ w.c.log[2 * i] =
                      [call |-> "read", off |-> RecordOffset(w.seen[i]),
                       len |-> RecordSize]
          /\ last.op = "traverseNaive" => log = w.c.log
    /\ (scheme = "paged" /\ AppendsOnly) =>
          /\ CallsOf(Buffered.c.log, "read") = CeilDiv(hdr.Size, SLOTS_PER_PAGE)
          /\ last.op = "traverse" => log = Buffered.c.log

C25_Witness ==
    /\ scheme = "paged" /\ AppendsOnly /\ hdr.Size = 3 /\ last.op = "traverse"
    /\ CallsOf(log, "read") = 2
    /\ CallsOf(PerRecord.c.log, "read") = 3 /\ CallsOf(PerRecord.c.log, "seek") = 3

\* ========================================================== the free list
RECURSIVE FreeLoop(_, _, _, _)
\* the records met by following Next from off in the file, each with its
\* tombstone byte, until the null offset (at most fuel records)
FreeLoop(bytes, off, acc, fuel) ==
    IF off = NullOffset THEN [chain |-> acc, ended |-> TRUE]
    ELSE IF fuel = 0 \/ off < 0 \/ off + nodeOnDiskSize > Len(bytes)
    THEN [chain |-> acc, ended |-> FALSE]
    ELSE Then(NodeOf(SubSeq(bytes, off + 1, off + nodeOnDiskSize)), LAMBDA node :
         FreeLoop(bytes, node.Next, Append(acc, [off |-> off, Tomb |-> node.Tomb]),
                  fuel - 1))

\* the chain that starts at the header's FreeList
FreeChain(bytes, h) == FreeLoop(bytes, h.FreeList, <<>>, Len(bytes) + 1)

C28_ErrorLeavesHeaderInMemory ==
    [][(IsListOp(last'.op) /\ last'.err) =>
          /\ HeadOf(hdr') = HeadOf(hdr)
          /\ TailOf(hdr') = TailOf(hdr)
          /\ hdr'.Size = hdr.Size
          /\ Traverse(scheme, disk', hdr').out = Logical.out]_vars

\* ======================================================= writes to records
\* the bytes of the record at addr
RecBytes(bytes, a) ==
    SubSeq(bytes, RecordOffset(a) + 1, RecordOffset(a) + RecordSize)

\* the record at addr: its value, its tombstone byte, its next address
RecOf(bytes, a) ==
    IF scheme = "offset"
    THEN LET n == NodeOf(RecBytes(bytes, a))
         IN  [Value |-> n.Value, Tomb |-> n.Tomb, Next |-> n.Next]
    ELSE LET n == SlotOf(RecBytes(bytes, a))
         IN  [Value |-> n.Value, Tomb |-> n.Tomb, Next |-> <<n.NextPage, n.NextSlot>>]

\* the bytes of a record outside its next field
OutsideNext(b) ==
    SubSeq(b, 1, 4) \o SubSeq(b, IF scheme = "offset" THEN 13 ELSE 11, Len(b))

\* the calls of an operation that took effect: all of them, or all but the
\* last one, which failed
Effective(calls, err) == IF err THEN SubSeq(calls, 1, Len(calls) - 1) ELSE calls

\* a write call among calls covers a byte of the record at addr
Written(calls, a) ==
    \E i \in 1..Len(calls) :
        /\ calls[i].call = "write"
        /\ calls[i].off < RecordOffset(a) + RecordSize
        /\ calls[i].off + calls[i].len > RecordOffset(a)

\* the record visited just before addr in the list of the handle, or null
PredOf(a) ==
    IF \E i \in 2..Len(Logical.seen) : Logical.seen[i] = a
    THEN Logical.seen[(CHOOSE i \in 2..Len(Logical.seen) : Logical.seen[i] = a) - 1]
    ELSE NullOf(scheme)

C30_HeadTailFrame ==
    [][(IsListOp(last'.op) /\ ~last'.err) =>
         LET h == HeadOf(hdr)
             t == TailOf(hdr)
             d == last'.addr
             deleted == last'.op = "delete" /\ last'.found
         IN  /\ (last'.op = "prepend" /\ hdr.Size # 0) =>
                   (TailOf(hdr') = t /\ HeadOf(hdr') = d)
             /\ (last'.op = "append" /\ hdr.Size # 0) =>
                   (HeadOf(hdr') = h /\ TailOf(hdr') = d)
             /\ (deleted /\ d # h /\ d # t) =>
                   (HeadOf(hdr') = h /\ TailOf(hdr') = t)
             /\ (deleted /\ d = t /\ d # h) =>
                   (TailOf(hdr') = PredOf(d) /\ HeadOf(hdr') = h
                    /\ PredOf(d) # NullOf(scheme))
             /\ (deleted /\ d = t /\ d = h) =>
                   (HeadOf(hdr') = NullOf(scheme) /\ TailOf(hdr') = NullOf(scheme))
             /\ (last'.op = "delete" /\ ~last'.found) =>
                   (HeadOf(hdr') = h /\ TailOf(hdr') = t)]_vars

\* the tail of three appended records was deleted: tail is the second one
C30_Witness ==
    /\ scheme = "offset" /\ last.op = "delete" /\ last.found /\ ~last.err
    /\ nAdd = 3 /\ nDel = 1
    /\ last.addr = OffHeaderSize + 2 * nodeOnDiskSize
    /\ hdr.TailOffset = OffHeaderSize + nodeOnDiskSize
    /\ hdr.HeadOffset = OffHeaderSize

\* ===================================================== pages and addresses
\* addr is null or addresses a used slot of a counted page
ValidAddr(bytes, h, a) ==
    \/ a = NullAddr
    \/ /\ a[1] >= 0 /\ a[1] < h.PageCount
       /\ PageInFile(bytes, a[1])
       /\ a[2] < UsedOf(bytes, a[1])

\* C31: in the paged scheme, after successful operations, every page below
\* the last one is full, the last page holds between one slot and
\* slotsPerPage slots, and head, tail and the next of every record reachable
\* from head are null or address a used slot of a counted page.
C31_PagedStructure ==
    scheme = "paged" =>
       /\ \A p \in 0..(hdr.PageCount - 2) :
             PageInFile(disk, p) /\ UsedOf(disk, p) = SLOTS_PER_PAGE
       /\ hdr.PageCount > 0 =>
             /\ PageInFile(disk, hdr.PageCount - 1)
             /\ UsedOf(disk, hdr.PageCount - 1) >= 1
             /\ UsedOf(disk, hdr.PageCount - 1) <= SLOTS_PER_PAGE
       /\ Len(disk) = pageOffset(hdr.PageCount)
       /\ ValidAddr(disk, hdr, HeadOf(hdr))
       /\ ValidAddr(disk, hdr, TailOf(hdr))
       /\ \A i \in 1..Len(Logical.seen) :
             /\ ValidAddr(disk, hdr, Logical.seen[i])
             /\ ValidAddr(disk, hdr, RecOf(disk, Logical.seen[i]).Next)

C31_Witness ==
    /\ scheme = "paged" /\ hdr.PageCount = 2 /\ nAdd = 3 /\ nDel = 1
    /\ UsedOf(disk, 0) = SLOTS_PER_PAGE /\ UsedOf(disk, 1) = 1
    /\ HeadOf(hdr) = <<1, 0>> /\ RecOf(disk, <<1, 0>>).Next = <<0, 1>>
    /\ TailOf(hdr) = <<0, 1>>

\* the byte positions of the record at addr, of the file header, and of the
\* page headers of the counted pages
BytesOf(a) == (RecordOffset(a) + 1)..(RecordOffset(a) + RecordSize)
HeaderBytes == 1..HeaderSizeOf(scheme)
PageHeaderBytes(h) ==
    IF scheme = "offset" THEN {}
    ELSE UNION {(pageOffset(p) + 1)..(pageOffset(p) + PAGE_HEADER_SIZE) :
                   p \in 0..(h.PageCount - 1)}

\* C32: the records of the file are as many as the successful appends and
\* prepends, each successful append or prepend adds one record at an
\* address no record of the file has, its bytes lie after the file header,
\* off every page header and off the bytes of every other record, and no
\* other operation adds or removes a record.
C32_AddressesAreUnique ==
    /\ [](/\ Cardinality(RecordsIn(disk, hdr)) = nAdd
          /\ \A a \in RecordsIn(disk, hdr) :
                /\ BytesOf(a) \cap HeaderBytes = {}
                /\ BytesOf(a) \cap PageHeaderBytes(hdr) = {}
                /\ BytesOf(a) \subseteq 1..Len(disk)
                /\ \A b \in RecordsIn(disk, hdr) :
                      a # b => BytesOf(a) \cap BytesOf(b) = {})
    /\ [][IF last'.op \in {"append", "prepend"} /\ ~last'.err
          THEN /\ last'.addr \notin RecordsIn(disk, hdr)
               /\ RecordsIn(disk', hdr') = RecordsIn(disk, hdr) \cup {last'.addr}
               /\ \A a \in RecordsIn(disk, hdr) :
                     BytesOf(last'.addr) \cap BytesOf(a) = {}
               /\ \E i \in 1..Len(log') :
                     log'[i] = [call |-> "write", off |-> RecordOffset(last'.addr),
                                len |-> RecordSize]
          ELSE RecordsIn(disk', hdr') = RecordsIn(disk, hdr)]_vars

C32_Witness ==
    /\ last.op = "prepend" /\ ~last.err /\ nAdd = 3 /\ nDel = 1
    /\ Cardinality(RecordsIn(disk, hdr)) = 3
    /\ Cardinality(dead) = 1 /\ last.addr \notin dead

\* ================================================== traversals only read
\* PagedStore.TraverseValuesPhysical on the handle's file
PhysicalTraverse ==
    /\ Usable /\ scheme = "paged"
    /\ Traversed("traversePhysical", TraverseValuesPhysical(NewCtx(disk, 0), hdr))

NextRead ==
    \/ \E v \in Values : OffAppendTail(v, 0)
    \/ \E v \in Values : OffPrependHead(v, 0)
    \/ \E v \in Values : OffDeleteFirstByValue(v, 0)
    \/ \E v \in Values : PagedAppendTail(v, 0)
    \/ \E v \in Values : PagedPrependHead(v, 0)
    \/ \E v \in Values : PagedDeleteFirstByValue(v, 0)
    \/ OffTraverse
    \/ BufferedTraverse
    \/ PhysicalTraverse

SpecRead == Init /\ [][NextRead]_vars

IsTraversal(o) == o \in {"traverse", "traverseNaive", "traversePhysical"}

\* C33: a logical or physical traversal issues no write and leaves the
\* in-memory header, the file (its header, every page header, every record)
\* as they were; it returns without error, and a traversal that follows the
\* same traversal returns the same sequence.
C33_TraversalReadsOnly ==
    [][IsTraversal(last'.op) =>
          /\ ~last'.err
          /\ CallsOf(log', "write") = 0
          /\ Len(log') = CallsOf(log', "seek") + CallsOf(log', "read")
          /\ hdr' = hdr
          /\ disk' = disk
          /\ SubSeq(disk', 1, HeaderSizeOf(scheme)) = SubSeq(disk, 1, HeaderSizeOf(scheme))
          /\ \A a \in RecordsIn(disk, hdr) : RecBytes(disk', a) = RecBytes(disk, a)
          /\ scheme = "paged" =>
                \A p \in 0..(hdr.PageCount - 1) : UsedOf(disk', p) = UsedOf(disk, p)
          /\ last'.op # "traversePhysical" => last'.out = Logical.out
          /\ last'.op = last.op => last'.out = last.out]_vars

\* a physical traversal of two pages holding a deleted record has returned
\* the live values in file order, which is not the logical order
C33_Witness ==
    /\ last.op = "traversePhysical" /\ ~last.err /\ nDel = 1 /\ nAdd = 3
    /\ last.out = <<0, 1>> /\ Logical.out = <<1, 0>>
    /\ CallsOf(log, "read") = 5

\* ======================================================== the loops end
\* deleteFirstByValue(v) called on the handle as it is
DeleteOn(v) ==
    IF scheme = "offset" THEN deleteFirstByValue(NewCtx(disk, 0), hdr, v)
    ELSE DeleteFirstByValue(NewCtx(disk, 0), hdr, v)
\* the reads a delete makes before its first write: one per iteration of its
\* loop, the match included
FirstWrite(calls) ==
    IF \E i \in 1..Len(calls) : calls[i].call = "write"
    THEN CHOOSE i \in 1..Len(calls) :
            /\ calls[i].call = "write"
            /\ \A j \in 1..(i - 1) : calls[j].call # "write"
    ELSE Len(calls) + 1
Visits(calls) == CallsOf(SubSeq(calls, 1, FirstWrite(calls) - 1), "read")
SizeOf(h) == h.Size
\* the null sentinel that ends a chain
Sentinel == IF scheme = "offset" THEN NullOffset ELSE NullAddr

\* C34: on every state the successful operations reach, the loop of logical
\* traversal leaves at the null sentinel after visiting at most size records
\* (it visits exactly the size records of the chain, the last of which links
\* to null), and the loop of deleteFirstByValue(v) leaves, for every v, at
\* the match or at the null sentinel, after visiting at most size records.
C34_LoopsEnd ==
    /\ ~Logical.loop /\ ~Logical.err
    /\ Len(Logical.seen) <= SizeOf(hdr)
    /\ Len(Logical.seen) = Len(Logical.out)
    /\ Logical.seen # <<>> =>
          RecOf(disk, Logical.seen[Len(Logical.seen)]).Next = Sentinel
    /\ \A v \in Values :
          /\ ~DeleteOn(v).loop /\ ~DeleteOn(v).c.err
          /\ Visits(DeleteOn(v).c.log) <= SizeOf(hdr)
          /\ DeleteOn(v).found =>
                Logical.out[Visits(DeleteOn(v).c.log)] = v
          /\ ~DeleteOn(v).found =>
                /\ Visits(DeleteOn(v).c.log) = Len(Logical.seen)
                /\ CallsOf(DeleteOn(v).c.log, "write") = 0
    /\ last.op = "delete" =>
          /\ Visits(log) <= SizeOf(hdr) + 1
          /\ last.found => Visits(log) >= 1

\* a delete has matched at the second record of a list of three, and on the
\* two records left a delete that matches nothing visits both
C34_Witness ==
    /\ last.op = "delete" /\ last.found /\ Visits(log) = 2
    /\ SizeOf(hdr) = 2 /\ nAdd = 3 /\ abs = <<0, 0>>
    /\ ~DeleteOn(1).found /\ Visits(DeleteOn(1).c.log) = 2
    /\ Len(Logical.seen) = 2

\* ================================================= traversal with page stats
\* 4096 in the source; here the size of a page of the paged scheme
OFFSET_PAGE_SIZE == PAGE_SIZE
\* make(map[uint32]int)
NoVisits == [p \in {} |-> 0]
\* pageVisits[pageID]++
Visited(pageVisits, pageID) ==
    [p \in DOMAIN pageVisits \cup {pageID} |->
        IF p \in DOMAIN pageVisits
        THEN pageVisits[p] + (IF p = pageID THEN 1 ELSE 0)
        ELSE 1]
\* what a traversal with page stats returns
Stats(c, values, pageVisits, err) ==
    [c |-> c, values |-> values, pageVisits |-> pageVisits, err |-> err]

RECURSIVE offsetStatsLoop(_, _, _, _, _)
offsetStatsLoop(c, off, values, pageVisits, fuel) ==
    IF off = NullOffset \/ fuel = 0 THEN Stats(c, values, pageVisits, FALSE)
    ELSE Then(readNodeAt(c, off), LAMBDA c1 :
         IF c1.err THEN Stats(c1, <<>>, NoVisits, TRUE)
         ELSE Then(NodeOf(c1.buf), LAMBDA n :
         offsetStatsLoop(c1, n.Next, Append(values, n.Value),
                         Visited(pageVisits, off \div OFFSET_PAGE_SIZE), fuel - 1)))

offsetTraverseWithPageStats(c, h) ==
    offsetStatsLoop(c, h.HeadOffset, <<>>, NoVisits, Len(c.file) + 1)

RECURSIVE pagedStatsLoop(_, _, _, _, _, _, _)
\* the two nested loops of pagedTraverseWithPageStats: used is -1 until the
\* header of page pageID has been read; what readSlot returns is dropped, and
\* values and pageVisits are returned as they were made
pagedStatsLoop(c, h, pageID, slotID, used, values, pageVisits) ==
    IF ~(pageID < h.PageCount) THEN Stats(c, values, pageVisits, FALSE)
    ELSE IF used = -1
    THEN Then(readPageHeader(c, pageID), LAMBDA c1 :
         IF c1.err THEN Stats(c1, <<>>, pageVisits, TRUE)
         ELSE Then(Uint16(c1.buf), LAMBDA u :
              pagedStatsLoop(c1, h, pageID, 0, u, values, pageVisits)))
    ELSE IF ~(slotID < used)
    THEN Then(pageID + 1, LAMBDA p :
              pagedStatsLoop(c, h, p, 0, -1, values, pageVisits))
    ELSE Then(readSlot(c, pageID, slotID), LAMBDA c1 :
         IF c1.err THEN Stats(c1, <<>>, pageVisits, TRUE)
         ELSE Then(slotID + 1, LAMBDA sl :
              pagedStatsLoop(c1, h, pageID, sl, used, values, pageVisits)))

pagedTraverseWithPageStats(c, h) ==
    pagedStatsLoop(c, h, 0, 0, -1, <<>>, NoVisits)

\* a traversal with page stats returned w
StatsTaken(op, w) ==
    /\ log' = w.c.log
    /\ disk' = w.c.file
    /\ last' = [op |-> op, value |-> Len(w.values), err |-> w.err, found |-> FALSE,
                addr |-> NullAddr, out |-> w.values, visits |-> w.pageVisits]
    /\ UNCHANGED <<scheme, hdr, open, abs, nAdd, nDel, allocs, dead,
                   committed, failures, sideVars>>

OffsetStats ==
    /\ Usable /\ scheme = "offset"
    /\ StatsTaken("offsetStats", offsetTraverseWithPageStats(NewCtx(disk, 0), hdr))

PagedStats ==
    /\ Usable /\ scheme = "paged"
    /\ StatsTaken("pagedStats", pagedTraverseWithPageStats(NewCtx(disk, 0), hdr))

\* main of the compare program: appends to both lists, then the traversals
\* with page stats (prepends are the program's other way to add)
NextStats ==
    \/ \E v \in Values : OffAppendTail(v, 0)
    \/ \E v \in Values : OffPrependHead(v, 0)
    \/ \E v \in Values : PagedAppendTail(v, 0)
    \/ \E v \in Values : PagedPrependHead(v, 0)
    \/ OffsetStats
    \/ PagedStats

SpecStats == Init /\ [][NextStats]_vars

RECURSIVE SumOver(_, _)
SumOver(f, S) ==
    IF S = {} THEN 0
    ELSE LET p == CHOOSE q \in S : TRUE IN f[p] + SumOver(f, S \ {p})
TotalVisits(pageVisits) == SumOver(pageVisits, DOMAIN pageVisits)
\* the page of a record address
PageOf(a) == IF scheme = "offset" THEN a \div OFFSET_PAGE_SIZE ELSE a[1]
\* the pages of the records of the chain and how many of them each holds
ChainVisits ==
    LET pages == {PageOf(Logical.seen[i]) : i \in 1..Len(Logical.seen)}
    IN  [p \in pages |->
            Cardinality({i \in 1..Len(Logical.seen) : PageOf(Logical.seen[i]) = p})]

\* the traversal with page stats of the offset list returns the values of the
\* list and the visits of each 4 KB page
OffsetStatsSound ==
    last.op = "offsetStats" =>
       /\ ~last.err
       /\ last.out = abs
       /\ last.visits = ChainVisits
       /\ TotalVisits(last.visits) = SizeOf(hdr)

\* C35: pagedTraverseWithPageStats returns the values of the list and, for
\* each page id, the number of visits of that page: for a list of n records
\* the values have length n and the visit counts sum to n.
C35_PagedPageStats ==
    last.op = "pagedStats" =>
       /\ ~last.err
       /\ last.out = abs
       /\ Len(last.out) = SizeOf(hdr)
       /\ last.visits = ChainVisits
       /\ TotalVisits(last.visits) = SizeOf(hdr)

\* ================================================================ the B-tree
\* keys inserted are 0..MaxKey
MaxKey == 2
\* Insert calls made on one tree
MaxInserts == 9
\* minimum degrees a tree is made with: 2..MaxDegree
MaxDegree == 3
Keys == 0..MaxKey
\* a nil pointer; a pointer to v is <<v>>
Nil == <<>>
\* &BTreeNode{keys, children, isLeaf}
Node(keys, children, isLeaf) ==
    [keys |-> keys, children |-> children, isLeaf |-> isLeaf]
\* make([]int, n)
Make(n) == [j \in 1..n |-> 0]
\* copy(dst, src): the first min(len(dst), len(src)) elements
Copy(dst, src) == [j \in 1..Len(dst) |-> IF j <= Len(src) THEN src[j] ELSE dst[j]]
\* copy(make([]*BTreeNode, n), src)
CopyNodes(n, src) == [j \in 1..n |-> IF j <= Len(src) THEN src[j] ELSE Nil]
\* s[a:b], indices counted from 0
Slice(s, a, b) == SubSeq(s, a + 1, b)

RECURSIVE FindLoop(_, _, _)
FindLoop(keys, k, i) ==
    IF ~(i < Len(keys)) THEN Len(keys)
    ELSE IF k < keys[i + 1] THEN i
    ELSE FindLoop(keys, k, i + 1)

FindChildIndex(x, k) == FindLoop(x.keys, k, 0)

RECURSIVE EqualLoop(_, _, _)
\* the first loop of Search: the first index holding k, -1 for none
EqualLoop(keys, k, i) ==
    IF ~(i < Len(keys)) THEN -1
    ELSE IF keys[i + 1] = k THEN i
    ELSE EqualLoop(keys, k, i + 1)

RECURSIVE Search(_, _)
\* BTreeNode.Search: the node returned (a pointer) and the index; panic when
\* the child index is out of range
Search(x, k) ==
    IF EqualLoop(x.keys, k, 0) # -1
    THEN [node |-> <<x>>, index |-> EqualLoop(x.keys, k, 0), panic |-> FALSE]
    ELSE IF x.isLeaf THEN [node |-> Nil, index |-> -1, panic |-> FALSE]
    ELSE IF ~(FindChildIndex(x, k) < Len(x.children))
    THEN [node |-> Nil, index |-> -1, panic |-> TRUE]
    ELSE Search(x.children[FindChildIndex(x, k) + 1], k)

\* BTreeNode.SplitChild: x after the call (children[i] is changed in place)
SplitChild(x, i, t) ==
    Then(x.children[i + 1], LAMBDA y :
    Then(t - 1, LAMBDA median :
    Then(Node(Copy(Make(t - 1), Slice(y.keys, median + 1, Len(y.keys))),
              IF y.isLeaf THEN Nil
              ELSE CopyNodes(t, Slice(y.children, median + 1, Len(y.children))),
              y.isLeaf), LAMBDA z :
    Then(y.keys[median + 1], LAMBDA midKey :
    Then(Node(Copy(Make(t - 1), Slice(y.keys, 0, median)),
              IF y.isLeaf THEN y.children
              ELSE CopyNodes(median + 1, Slice(y.children, 0, median + 1)),
              y.isLeaf), LAMBDA y1 :
    Node(Slice(x.keys, 0, i) \o <<midKey>> \o Slice(x.keys, i, Len(x.keys)),
         Slice(x.children, 0, i) \o <<y1>> \o <<z>>
             \o Slice(x.children, i + 1, Len(x.children)),
         x.isLeaf))))))

RECURSIVE ShiftLoop(_, _, _)
\* the loop of the leaf branch of InsertNonFull and the store after it
ShiftLoop(keys, i, k) ==
    IF i >= 0 /\ k < keys[i + 1]
    THEN ShiftLoop([keys EXCEPT ![i + 2] = keys[i + 1]], i - 1, k)
    ELSE [keys EXCEPT ![i + 2] = k]

\* tmp := make([]int, len(x.keys)+1); copy(tmp, x.keys); x.keys = tmp
Grown(x) == [x EXCEPT !.keys = Copy(Make(Len(x.keys) + 1), x.keys)]
\* the loop and the store of the leaf branch, on the grown leaf
Placed(x, k) == [x EXCEPT !.keys = ShiftLoop(x.keys, Len(x.keys) - 2, k)]
\* mutant of Descent: after the split of a full child the index is not moved past the key that came up
Descent_IndexKept(x, k, t) ==
    Then(FindChildIndex(x, k), LAMBDA idx :
    IF Len(x.children[idx + 1].keys) = 2 * t - 1
    THEN Then(SplitChild(x, idx, t), LAMBDA x1 :
         [x |-> x1, idx |-> idx])
    ELSE [x |-> x, idx |-> idx])

\* the child InsertNonFull descends to, after the split of a full child
Descent(x, k, t) ==
    Then(FindChildIndex(x, k), LAMBDA idx :
    IF Len(x.children[idx + 1].keys) = 2 * t - 1
    THEN Then(SplitChild(x, idx, t), LAMBDA x1 :
         [x |-> x1, idx |-> IF x1.keys[idx + 1] < k THEN idx + 1 ELSE idx])
    ELSE [x |-> x, idx |-> idx])

RECURSIVE InsertNonFull(_, _, _)
InsertNonFull(x, k, t) ==
    IF x.isLeaf THEN Placed(Grown(x), k)
    ELSE Then(Descent(x, k, t), LAMBDA d :
         [d.x EXCEPT !.children[d.idx + 1] = InsertNonFull(@, k, t)])

\* the root BTree.Insert leaves before it calls InsertNonFull
RootFor(b, k) ==
    IF b.root = Nil THEN <<Node(<<k>>, Nil, TRUE)>>
    ELSE IF Len(b.root[1].keys) = 2 * b.t - 1
    THEN <<SplitChild(Node(Nil, <<b.root[1]>>, FALSE), 0, b.t)>>
    ELSE b.root

\* BTree.Insert: the tree after the call
Insert(b, k) ==
    IF b.root = Nil THEN [b EXCEPT !.root = RootFor(b, k)]
    ELSE [b EXCEPT !.root = <<InsertNonFull(RootFor(b, k)[1], k, b.t)>>]

RECURSIVE searchWithTrace(_, _, _, _)
\* mutant of searchWithTrace: the key loop also passes the keys equal to k
searchWithTrace_SkipsEqual(node, label, k, trace) ==
    Then(Append(trace, label), LAMBDA trace1 :
    Then(CHOOSE i \in 0..Len(node.keys) :
            /\ ~(i < Len(node.keys) /\ k >= node.keys[i + 1])
            /\ \A j \in 0..(i - 1) : k >= node.keys[j + 1], LAMBDA i :
    IF i < Len(node.keys) /\ node.keys[i + 1] = k
    THEN [trace |-> trace1, found |-> TRUE]
    ELSE IF node.isLeaf \/ i >= Len(node.children)
    THEN [trace |-> trace1, found |-> FALSE]
    ELSE searchWithTrace(node.children[i + 1], label \o "-" \o ToString(i), k,
                         trace1)))

searchWithTrace(node, label, k, trace) ==
    Then(Append(trace, label), LAMBDA trace1 :
    Then(CHOOSE i \in 0..Len(node.keys) :
            /\ ~(i < Len(node.keys) /\ k > node.keys[i + 1])
            /\ \A j \in 0..(i - 1) : k > node.keys[j + 1], LAMBDA i :
    IF i < Len(node.keys) /\ node.keys[i + 1] = k
    THEN [trace |-> trace1, found |-> TRUE]
    ELSE IF node.isLeaf \/ i >= Len(node.children)
    THEN [trace |-> trace1, found |-> FALSE]
    ELSE searchWithTrace(node.children[i + 1], label \o "-" \o ToString(i), k,
                         trace1)))

SearchPath(b, k) ==
    IF b.root = Nil THEN [trace |-> Nil, found |-> FALSE]
    ELSE searchWithTrace(b.root[1], "root", k, <<>>)

\* --------------------------------------------------- calls on one tree
\* the list programs do not run
NoList ==
    /\ scheme = "offset" /\ disk = <<>> /\ hdr = Absent /\ open = FALSE
    /\ log = <<>>
    /\ last = [op |-> "none", value |-> 0, err |-> FALSE, found |-> FALSE,
               addr |-> NullOffset]
    /\ abs = <<>> /\ nAdd = 0 /\ nDel = 0 /\ allocs = 0 /\ dead = {}
    /\ committed = <<>> /\ failures = 0
    /\ peer = Absent /\ cf = Absent /\ trav = Absent
notService == <<listVars, peer, cf, trav>>

\* how many times each key was inserted
NoKeys == [k \in Keys |-> 0]
Inserted == hist[0] + SumOver(hist, Keys \ {0})

\* &BTree{t: t}
InitBTree ==
    /\ NoList
    /\ \E t \in 2..MaxDegree : currentTree = <<[root |-> Nil, t |-> t]>>
    /\ treeMu = Nil
    /\ req = [op |-> "new"]
    /\ hist = NoKeys

BInsert(k) ==
    /\ Inserted < MaxInserts
    /\ currentTree' = <<Insert(currentTree[1], k)>>
    /\ hist' = [hist EXCEPT ![k] = @ + 1]
    /\ req' = [op |-> "Insert", k |-> k]
    /\ UNCHANGED <<notService, treeMu>>

BSearch(k) ==
    /\ req' = [op |-> "SearchPath", k |-> k,
               path |-> SearchPath(currentTree[1], k).trace,
               found |-> SearchPath(currentTree[1], k).found]
    /\ UNCHANGED <<notService, treeMu, currentTree, hist>>

\* BTreeNode.Search called on the root of a tree that has one
BNodeSearch(k) ==
    /\ currentTree[1].root # Nil
    /\ req' = [op |-> "Search", k |-> k,
               node |-> Search(currentTree[1].root[1], k).node,
               index |-> Search(currentTree[1].root[1], k).index,
               panic |-> Search(currentTree[1].root[1], k).panic]
    /\ UNCHANGED <<notService, treeMu, currentTree, hist>>

NextBTree ==
    \/ \E k \in Keys : BInsert(k)
    \/ \E k \in Keys : BSearch(k)
    \/ \E k \in Keys : BNodeSearch(k)

SpecBTree == InitBTree /\ [][NextBTree]_vars

\* ------------------------------------------------------- the shape
RECURSIVE KeysIn(_)
\* the keys of the subtree of x
KeysIn(x) ==
    Range(x.keys) \cup UNION {KeysIn(x.children[i]) : i \in 1..Len(x.children)}
RECURSIVE CountIn(_, _)
\* how many times k is held in the subtree of x
CountIn(x, k) ==
    Cardinality({i \in 1..Len(x.keys) : x.keys[i] = k})
    + SumOver([i \in 1..Len(x.children) |-> CountIn(x.children[i], k)],
              1..Len(x.children))
RECURSIVE LeafDepths(_)
LeafDepths(x) ==
    IF x.isLeaf THEN {0}
    ELSE {d + 1 : d \in UNION {LeafDepths(x.children[i]) : i \in 1..Len(x.children)}}
RECURSIVE Shaped(_, _, _)
\* the shape of the subtree of x in a tree of minimum degree t
Shaped(x, t, isRoot) ==
    /\ \A i \in 1..(Len(x.keys) - 1) : x.keys[i] <= x.keys[i + 1]
    /\ Len(x.keys) <= 2 * t - 1
    /\ ~isRoot => Len(x.keys) >= t - 1
    /\ x.isLeaf => Len(x.children) = 0
    /\ ~x.isLeaf => Len(x.children) = Len(x.keys) + 1
    /\ \A i \in 1..Len(x.children) :
          /\ x.children[i] # Nil
          /\ \A q \in KeysIn(x.children[i]) :
                /\ i > 1 => x.keys[i - 1] <= q
                /\ i <= Len(x.keys) => q <= x.keys[i]
          /\ Shaped(x.children[i], t, FALSE)

TheTree == currentTree[1]
TheRoot == TheTree.root[1]

\* C36: after any sequence of Insert calls on a BTree of minimum degree
\* t >= 2 the keys of every node are in non-decreasing order, every node
\* has at most 2t-1 keys, every non-root node at least t-1, every internal
\* node one child more than keys, all leaves are at the same depth, the keys
\* of child i lie between keys i-1 and i of its parent, and the tree holds
\* as many keys as Insert calls were made (each key as often as inserted).
C36_BTreeShape ==
    /\ TheTree.t >= 2
    /\ TheTree.root = Nil <=> Inserted = 0
    /\ TheTree.root # Nil =>
          /\ Shaped(TheRoot, TheTree.t, TRUE)
          /\ Cardinality(LeafDepths(TheRoot)) = 1
          /\ \A k \in Keys : CountIn(TheRoot, k) = hist[k]
          /\ SumOver([k \in Keys |-> CountIn(TheRoot, k)], Keys) = Inserted

\* nine inserts into a tree of degree 2 have split the root twice: the
\* leaves are two levels below the root, and a key is held more than once
C36_Witness ==
    /\ req.op = "Insert" /\ TheTree.t = 2 /\ Inserted = 9
    /\ LeafDepths(TheRoot) = {2}
    /\ \E k \in Keys : hist[k] >= 2 /\ CountIn(TheRoot, k) = hist[k]

\* ------------------------------------------------------- search
RECURSIVE PathsIn(_)
\* the paths from x to the nodes of its subtree, as child indices from 0
PathsIn(x) ==
    {<<>>} \cup UNION {{<<i - 1>> \o p : p \in PathsIn(x.children[i])} :
                          i \in 1..Len(x.children)}
RECURSIVE NodeAt(_, _)
NodeAt(x, path) ==
    IF path = <<>> THEN x ELSE NodeAt(x.children[path[1] + 1], Tail(path))
RECURSIVE LabelOf(_)
\* "root" followed by "-i" for every child index i of the path
LabelOf(path) ==
    IF path = <<>> THEN "root"
    ELSE LabelOf(SubSeq(path, 1, Len(path) - 1)) \o "-" \o ToString(path[Len(path)])
\* the labels of the nodes from the root to the node at path
LabelsTo(path) == [j \in 1..(Len(path) + 1) |-> LabelOf(SubSeq(path, 1, j - 1))]
\* the subtree of child c of x is where a search for k goes on
Leads(x, c, k) ==
    /\ k \notin Range(x.keys)
    /\ \A j \in 1..Len(x.keys) : j <= c <=> x.keys[j] < k
\* keys asked for: those that may have been inserted, and one that never is
Asked == Keys \cup {MaxKey + 1}
WasInserted(k) == k \in Keys /\ hist[k] > 0

\* C37: after any sequence of Insert calls SearchPath(k) reports found
\* exactly when k was inserted; its trace is the labels of the nodes from the
\* root to the node the search ends in, "root" first and each next label the
\* one before it with the index of the child followed appended; and on a tree
\* that has a root BTreeNode.Search(k) on the root returns a node of the tree
\* and an index holding k exactly when SearchPath reports found (nil and -1
\* otherwise).
C37_BTreeSearch ==
    \A k \in Asked :
       /\ SearchPath(TheTree, k).found <=> WasInserted(k)
       /\ TheTree.root = Nil => SearchPath(TheTree, k).trace = Nil
       /\ TheTree.root # Nil =>
             /\ \E path \in PathsIn(TheRoot) :
                   /\ SearchPath(TheTree, k).trace = LabelsTo(path)
                   /\ \A j \in 1..Len(path) :
                         Leads(NodeAt(TheRoot, SubSeq(path, 1, j - 1)), path[j], k)
                   /\ IF SearchPath(TheTree, k).found
                      THEN k \in Range(NodeAt(TheRoot, path).keys)
                      ELSE NodeAt(TheRoot, path).isLeaf
             /\ ~Search(TheRoot, k).panic
             /\ Search(TheRoot, k).node # Nil <=> SearchPath(TheTree, k).found
             /\ IF Search(TheRoot, k).node # Nil
                THEN /\ \E path \in PathsIn(TheRoot) :
                           NodeAt(TheRoot, path) = Search(TheRoot, k).node[1]
                     /\ Search(TheRoot, k).index \in
                           0..(Len(Search(TheRoot, k).node[1].keys) - 1)
                     /\ Search(TheRoot, k).node[1].keys[Search(TheRoot, k).index + 1] = k
                ELSE Search(TheRoot, k).index = -1

\* a search has gone down two levels, to child 1 of the root and child 0 of
\* that, and found its key in a leaf, where Search finds it too
C37_Witness ==
    /\ req.op = "SearchPath" /\ req.found /\ Len(req.path) = 3
    /\ req.path[1] = "root" /\ req.path[2] = "root-1" /\ req.path[3] = "root-1-0"
    /\ ~SearchPath(TheTree, MaxKey + 1).found
    /\ Len(SearchPath(TheTree, MaxKey + 1).trace) = 3
    /\ Search(TheRoot, req.k).node # Nil /\ Search(TheRoot, req.k).node[1].isLeaf

\* ======================================================= the B-tree service
\* requests the server receives in one run
MaxRequests == 5
\* requests served at the same time (net/http serves each on its own goroutine)
MaxInFlight == 2
Slots == 1..MaxInFlight

RECURSIVE buildVisualNode(_, _)
buildVisualNode(node, path) ==
    [Path |-> path, Keys |-> node.keys, IsLeaf |-> node.isLeaf,
     Children |-> [i \in 1..Len(node.children) |->
                      buildVisualNode(node.children[i],
                                      path \o "-" \o ToString(i - 1))]]

\* snapshotStateLocked: the statePayload made of the tree ct points to
snapshotStateLocked(ct) ==
    IF ct = Nil THEN [HasTree |-> FALSE, T |-> 0, Tree |-> Nil]
    ELSE [HasTree |-> TRUE, T |-> ct[1].t,
          Tree |-> IF ct[1].root # Nil
                   THEN <<buildVisualNode(ct[1].root[1], "root")>> ELSE Nil]

\* the handlers, as the calls they make in order; "accept" is the method
\* check and the decoding of the body, and the last call of handleInsert and
\* handleSearch is the deferred unlock
handleState == <<"accept", "RLock", "snapshot", "RUnlock", "respond">>

handleCreate == <<"accept", "validate", "Lock", "create", "snapshot", "Unlock", "respond">>

\* mutant of handleInsert: the handler takes the read lock
handleInsert_ReadLocks == <<"accept", "RLock", "nilcheck", "Insert", "snapshot", "respond", "RUnlock">>

handleInsert == <<"accept", "Lock", "nilcheck", "Insert", "snapshot", "respond", "Unlock">>

handleSearch == <<"accept", "RLock", "nilcheck", "SearchPath", "snapshot", "respond", "RUnlock">>

Handler(kind) ==
    CASE kind = "state" -> handleState
      [] kind = "create" -> handleCreate
      [] kind = "insert" -> handleInsert
      [] kind = "search" -> handleSearch

Idle == [kind |-> "idle"]
Serving(r) == req[r].kind # "idle"
Finished(r) == Serving(r) /\ req[r].pc > Len(Handler(req[r].kind))
\* the call request r makes next
At(r) ==
    IF ~Serving(r) \/ Finished(r) THEN "none"
    ELSE Handler(req[r].kind)[req[r].pc]
\* r goes on with its next call / r has returned from its handler
Go(r) == [req EXCEPT ![r].pc = @ + 1]
\* writeError(w, status, message) followed by return: the handler is left,
\* and a deferred unlock runs when the lock was taken
Refused(r, status, message) ==
    [req EXCEPT ![r].resp = [status |-> status, error |-> message],
                ![r].pc = IF req[r].pc > 2 THEN Len(Handler(req[r].kind))
                          ELSE Len(Handler(req[r].kind)) + 1]

\* sync.RWMutex: the request holding the write lock (0 for none) and the
\* read locks each request holds
Unlocked == [writer |-> 0, readers |-> [r \in Slots |-> 0]]
LocksHeld(r) == treeMu.readers[r] + (IF treeMu.writer = r THEN 1 ELSE 0)
NoReaders == \A r \in Slots : treeMu.readers[r] = 0

InitService ==
    /\ NoList
    /\ currentTree = Nil
    /\ treeMu = Unlocked
    /\ req = [r \in Slots |-> Idle]
    /\ hist = [keys |-> NoKeys, creates |-> 0, received |-> 0]

\* the server hands a request to a handler
Receive(r, kind, arg, bad) ==
    /\ ~Serving(r) /\ hist.received < MaxRequests
    /\ req' = [req EXCEPT ![r] = [kind |-> kind, arg |-> arg, bad |-> bad, pc |-> 1,
                                  resp |-> Nil, state |-> Nil, stage |-> "",
                                  at |-> <<>>, pre |-> Nil, path |-> Nil,
                                  found |-> FALSE]]
    /\ hist' = [hist EXCEPT !.received = @ + 1]
    /\ UNCHANGED <<notService, currentTree, treeMu>>

\* the method check and the decoding of the body
Accept(r) ==
    /\ At(r) = "accept"
    /\ req' = IF req[r].bad = "method" THEN Refused(r, 405, "method")
              ELSE IF req[r].bad = "json" /\ req[r].kind # "state"
              THEN Refused(r, 400, "json")
              ELSE Go(r)
    /\ UNCHANGED <<notService, currentTree, treeMu, hist>>

\* mutant of Validate: a degree of 1 passes the check
Validate_AcceptsOne(r) ==
    /\ At(r) = "validate"
    /\ req' = IF req[r].arg < 1 THEN Refused(r, 400, "degree") ELSE Go(r)
    /\ UNCHANGED <<notService, currentTree, treeMu, hist>>

\* if payload.T < 2
Validate(r) ==
    /\ At(r) = "validate"
    /\ req' = IF req[r].arg < 2 THEN Refused(r, 400, "degree") ELSE Go(r)
    /\ UNCHANGED <<notService, currentTree, treeMu, hist>>

\* treeMu.Lock(): waits for the writer and the readers to leave
DoLock(r) ==
    /\ At(r) = "Lock"
    /\ treeMu.writer = 0 /\ NoReaders
    /\ treeMu' = [treeMu EXCEPT !.writer = r]
    /\ req' = Go(r)
    /\ UNCHANGED <<notService, currentTree, hist>>

\* treeMu.RLock(): waits for the writer to leave
DoRLock(r) ==
    /\ At(r) = "RLock"
    /\ treeMu.writer = 0
    /\ treeMu' = [treeMu EXCEPT !.readers[r] = @ + 1]
    /\ req' = Go(r)
    /\ UNCHANGED <<notService, currentTree, hist>>

DoUnlock(r) ==
    /\ At(r) = "Unlock"
    /\ treeMu' = [treeMu EXCEPT !.writer = 0]
    /\ req' = Go(r)
    /\ UNCHANGED <<notService, currentTree, hist>>

DoRUnlock(r) ==
    /\ At(r) = "RUnlock"
    /\ treeMu' = [treeMu EXCEPT !.readers[r] = @ - 1]
    /\ req' = Go(r)
    /\ UNCHANGED <<notService, currentTree, hist>>

\* currentTree = &BTree{t: payload.T}
Create(r) ==
    /\ At(r) = "create"
    /\ currentTree' = <<[root |-> Nil, t |-> req[r].arg]>>
    /\ hist' = [hist EXCEPT !.keys = NoKeys, !.creates = @ + 1]
    /\ req' = Go(r)
    /\ UNCHANGED <<notService, treeMu>>

\* if currentTree == nil
NilCheck(r) ==
    /\ At(r) = "nilcheck"
    /\ req' = IF currentTree = Nil THEN Refused(r, 400, "no tree") ELSE Go(r)
    /\ UNCHANGED <<notService, currentTree, treeMu, hist>>

\* BTree.Insert up to its call of InsertNonFull: the first root, or the
\* split of a full root
InsertRoot(r) ==
    /\ At(r) = "Insert" /\ req[r].stage = ""
    /\ currentTree' = <<[currentTree[1] EXCEPT !.root = RootFor(currentTree[1], req[r].arg)]>>
    /\ IF currentTree[1].root = Nil
       THEN /\ req' = Go(r)
            /\ hist' = [hist EXCEPT !.keys[req[r].arg] = @ + 1]
       ELSE /\ req' = [req EXCEPT ![r].stage = "nonfull", ![r].at = <<>>,
                                  ![r].pre = currentTree]
            /\ hist' = hist
    /\ UNCHANGED <<notService, treeMu>>

\* the node at path in the tree root, replaced by n
RECURSIVE ReplaceAt(_, _, _)
ReplaceAt(x, path, n) ==
    IF path = <<>> THEN n
    ELSE [x EXCEPT !.children[path[1] + 1] = ReplaceAt(@, Tail(path), n)]
\* the tree with the node at path replaced by n
TreeWith(path, n) ==
    <<[currentTree[1] EXCEPT !.root = <<ReplaceAt(currentTree[1].root[1], path, n)>>]>>

\* one call of InsertNonFull on the node at req[r].at, up to its recursive
\* call (an internal node) or up to x.keys = tmp (a leaf)
InsertDescend(r) ==
    /\ At(r) = "Insert" /\ req[r].stage = "nonfull"
    /\ \E x \in {NodeAt(currentTree[1].root[1], req[r].at)} :
          IF x.isLeaf
          THEN /\ currentTree' = TreeWith(req[r].at, Grown(x))
               /\ req' = [req EXCEPT ![r].stage = "place"]
          ELSE \E d \in {Descent(x, req[r].arg, currentTree[1].t)} :
               /\ currentTree' = TreeWith(req[r].at, d.x)
               /\ req' = [req EXCEPT ![r].at = Append(@, d.idx)]
    /\ UNCHANGED <<notService, treeMu, hist>>

\* the loop and the store of the leaf branch; Insert returns
InsertPlace(r) ==
    /\ At(r) = "Insert" /\ req[r].stage = "place"
    /\ currentTree' = TreeWith(req[r].at,
                         Placed(NodeAt(currentTree[1].root[1], req[r].at), req[r].arg))
    /\ req' = [Go(r) EXCEPT ![r].stage = "done"]
    /\ hist' = [hist EXCEPT !.keys[req[r].arg] = @ + 1]
    /\ UNCHANGED <<notService, treeMu>>

\* path, found := currentTree.SearchPath(payload.Value)
DoSearchPath(r) ==
    /\ At(r) = "SearchPath"
    /\ req' = [Go(r) EXCEPT ![r].path = SearchPath(currentTree[1], req[r].arg).trace,
                            ![r].found = SearchPath(currentTree[1], req[r].arg).found]
    /\ UNCHANGED <<notService, currentTree, treeMu, hist>>

\* state := snapshotStateLocked()
Snapshot(r) ==
    /\ At(r) = "snapshot"
    /\ req' = [Go(r) EXCEPT ![r].state = <<snapshotStateLocked(currentTree)>>]
    /\ UNCHANGED <<notService, currentTree, treeMu, hist>>

\* respondJSON(w, http.StatusOK, ...)
Respond(r) ==
    /\ At(r) = "respond"
    /\ req' = [Go(r) EXCEPT ![r].resp = [status |-> 200, error |-> ""]]
    /\ UNCHANGED <<notService, currentTree, treeMu, hist>>

\* the handler has returned and the response is sent
Return(r) ==
    /\ Finished(r)
    /\ req' = [req EXCEPT ![r] = Idle]
    /\ UNCHANGED <<notService, currentTree, treeMu, hist>>

NextService ==
    \/ \E r \in Slots : \E bad \in {"", "method", "json"} :
          \/ Receive(r, "state", 0, bad)
          \/ \E t \in 1..MaxDegree : Receive(r, "create", t, bad)
          \/ \E k \in Values : Receive(r, "insert", k, bad)
          \/ \E k \in Values : Receive(r, "search", k, bad)
    \/ \E r \in Slots : Accept(r)
    \/ \E r \in Slots : Validate(r)
    \/ \E r \in Slots : DoLock(r)
    \/ \E r \in Slots : DoRLock(r)
    \/ \E r \in Slots : DoUnlock(r)
    \/ \E r \in Slots : DoRUnlock(r)
    \/ \E r \in Slots : Create(r)
    \/ \E r \in Slots : NilCheck(r)
    \/ \E r \in Slots : InsertRoot(r)
    \/ \E r \in Slots : InsertDescend(r)
    \/ \E r \in Slots : InsertPlace(r)
    \/ \E r \in Slots : DoSearchPath(r)
    \/ \E r \in Slots : Snapshot(r)
    \/ \E r \in Slots : Respond(r)
    \/ \E r \in Slots : Return(r)

SpecService == InitService /\ [][NextService]_vars

\* ------------------------------------------------------- the protocol
\* request r takes a step
Moves(r) == Serving(r) /\ req'[r] # req[r]
IsError(resp) == resp # Nil /\ resp.status \in {400, 405} /\ resp.error # ""

\* C38: an insert or search request that finds no tree is answered with an
\* error and the state stays without a tree (so is every insert or search
\* answered before any tree was created); a create request with t < 2 is
\* answered with an error and none of its steps changes the current tree; a
\* create request with t >= 2 replaces the current tree by an empty tree of
\* degree t and answers with its state.
C38_ServiceProtocol ==
    /\ [](/\ hist.creates = 0 => currentTree = Nil
          /\ \A r \in Slots :
                /\ Serving(r) /\ req[r].kind \in {"insert", "search"}
                      /\ req[r].resp # Nil /\ hist.creates = 0
                   => IsError(req[r].resp) /\ req[r].state = Nil
                /\ Finished(r) => req[r].resp # Nil
                /\ Finished(r) /\ req[r].kind = "create" /\ req[r].arg < 2
                   => IsError(req[r].resp) /\ req[r].state = Nil
                /\ Finished(r) /\ req[r].kind = "create" /\ req[r].arg >= 2
                      /\ req[r].bad = ""
                   => /\ req[r].resp = [status |-> 200, error |-> ""]
                      /\ req[r].state =
                            <<[HasTree |-> TRUE, T |-> req[r].arg, Tree |-> Nil]>>)
    /\ [][\A r \in Slots : Moves(r) =>
             /\ At(r) = "nilcheck" /\ currentTree = Nil =>
                   /\ req'[r].resp = [status |-> 400, error |-> "no tree"]
                   /\ At(r)' \in {"Unlock", "RUnlock"}
                   /\ currentTree' = Nil
             /\ req[r].kind = "create" /\ req[r].arg < 2 =>
                   /\ currentTree' = currentTree
                   /\ treeMu' = treeMu
                   /\ At(r) # "create"
             /\ At(r) = "create" =>
                   /\ req[r].arg >= 2
                   /\ currentTree' = <<[root |-> Nil, t |-> req[r].arg]>>
             /\ At(r) # "create" /\ req[r].kind # "insert" =>
                   currentTree' = currentTree]_vars

\* a create request with t = 1 has been refused: the tree of degree 3 made
\* by the second create before it still holds its key
C38_Witness ==
    \E r \in Slots :
       /\ Finished(r) /\ req[r].kind = "create" /\ req[r].arg = 1 /\ req[r].bad = ""
       /\ req[r].resp = [status |-> 400, error |-> "degree"]
       /\ hist.creates = 2 /\ currentTree # Nil
       /\ currentTree[1].t = 3 /\ currentTree[1].root # Nil

\* ------------------------------------------------------- concurrency
\* r is inside BTree.Insert, between its first and its last store
MidInsert(r) == At(r) = "Insert" /\ req[r].stage \in {"nonfull", "place"}
\* r reads or writes currentTree or the tree in its next call
Touches(r) == At(r) \in {"create", "nilcheck", "Insert", "SearchPath", "snapshot"}
\* the tree holds what the Insert calls that returned put into it
Complete ==
    /\ \A r \in Slots : ~MidInsert(r)
    /\ currentTree # Nil =>
          /\ currentTree[1].root = Nil <=> \A k \in Keys : hist.keys[k] = 0
          /\ currentTree[1].root # Nil =>
                /\ Shaped(currentTree[1].root[1], currentTree[1].t, TRUE)
                /\ \A k \in Keys :
                      CountIn(currentTree[1].root[1], k) = hist.keys[k]

\* C39: create and insert requests hold the write lock from before their
\* first access to the tree until after their snapshot, search and state
\* requests the read lock; a request never takes a lock while it holds one;
\* while a request is inside Insert no other request reads or writes the
\* tree; whenever no Insert is in progress the tree holds exactly the keys of
\* the inserts that returned; and every SearchPath and every snapshot is
\* taken of such a tree, a search's result and snapshot of the same one.
C39_ServiceConcurrency ==
    /\ [](\A r \in Slots :
            /\ LocksHeld(r) <= 1
            /\ At(r) \in {"Lock", "RLock"} => LocksHeld(r) = 0
            /\ ~Serving(r) \/ Finished(r) => LocksHeld(r) = 0
            /\ Touches(r) /\ req[r].kind \in {"create", "insert"} => treeMu.writer = r
            /\ Touches(r) /\ req[r].kind \in {"search", "state"} =>
                  treeMu.readers[r] = 1 /\ treeMu.writer = 0
            /\ MidInsert(r) => \A q \in Slots \ {r} : ~Touches(q)
            /\ At(r) \in {"Unlock", "RUnlock"} => LocksHeld(r) = 1)
    /\ []((\A r \in Slots : ~MidInsert(r)) => Complete)
    /\ [][\A r \in Slots : Moves(r) =>
             /\ At(r) \in {"SearchPath", "snapshot"} => Complete
             /\ At(r) = "SearchPath" =>
                   req'[r].found <=> hist.keys[req[r].arg] > 0
             /\ At(r) = "snapshot" =>
                   req'[r].state = <<snapshotStateLocked(currentTree)>>
             /\ At(r) = "snapshot" /\ req[r].kind = "search" =>
                   req[r].found = SearchPath(currentTree[1], req[r].arg).found
             /\ At(r) = "Insert" /\ req[r].stage = "place" =>
                   /\ currentTree' = <<Insert(req[r].pre[1], req[r].arg)>>
                   /\ Complete']_vars

\* the third insert into a tree has grown the root leaf and not yet stored
\* its key, and a search that arrived meanwhile waits for the read lock
C39_Witness ==
    \E r, q \in Slots :
       /\ MidInsert(r) /\ req[r].stage = "place"
       /\ hist.keys[0] + hist.keys[1] = 2
       /\ Len(currentTree[1].root[1].keys) = 3
       /\ At(q) = "RLock" /\ req[q].kind = "search"
       /\ treeMu.writer = r

\* the fourth insert into a tree of degree 2 has split the root
RootSplitInService ==
    \E r \in Slots :
       /\ MidInsert(r) /\ req[r].stage = "place" /\ Len(req[r].at) = 1
       /\ hist.keys[0] + hist.keys[1] = 3

====
